---- MODULE Spec2Model ----
(***************************************************************************)
(* VietSpeak: the voice-sample intake pipeline, its quality scorer and the *)
(* pitch-transfer fallback of backend/app/services/voice_cloning_service.py, *)
(* the upload, clone and delete requests of endpoints/voice_cloning.py     *)
(* with the voice store of services/local_storage.py and its               *)
(* cleanup_old_files, upload requests served concurrently, clean_text and  *)
(* detect_language of services/text_processor.py, and synthesize_text of   *)
(* services/tts_service.py.                                                *)
(*                                                                         *)
(* Numbers.  The code computes in floating point; the model computes in   *)
(* fixed point.  A sample amplitude of 1.0 is Unit, a sub-score of 1.0 is  *)
(* SubOne, a composite score of 1.0 is ScoreOne (a sub-score times a       *)
(* weight given in hundredths).                                            *)
(*                                                                         *)
(* Framing.  librosa frames a signal with n_fft = 2048 and hop 512; the    *)
(* model frames it with non-overlapping frames of Hop = 2 samples, so the  *)
(* short-time transform of a frame (a, b) is the 2-point DFT (a+b, a-b).   *)
(***************************************************************************)
EXTENDS Integers, Sequences, FiniteSets, TLC

VARIABLES
    pc,            \* position of the current intake run
    stages,        \* the positions the current run has passed through, in order
    run,           \* number of intake runs started so far; also the voice_id
    file,          \* the uploaded file the current run reads
    audio,         \* the run's current buffer (audio, audio_trimmed, ... audio_final)
    duration,      \* local `duration` of the run, in samples at SampleRate
    report,        \* the scorer's five sub-scores of the run
    quality_score, \* local `quality_score` of the run
    result,        \* what the run returned or raised
    tmp,           \* tempdir: voice_id -> samples of processed_<voice_id>.wav
    first,         \* the outcome of the first finished run, with its file
    pt,            \* the last call of _apply_voice_characteristics
    sc,            \* the last direct call of a signal-processing function
    XTTS_AVAILABLE, \* module flag: the TTS library was imported
    voices,        \* storage/voices: voice_id -> the files of its directory
    uploads,       \* tempdir: the voice_ids whose uploaded file is there
    deleted,       \* the voice_ids whose profile.json has been removed
    issued,        \* number of voice_ids (uuid4) issued so far
    rq,            \* the HTTP request being served, with its locals
    tx,            \* the last calls of TextProcessor.clean_text
    audio_dir,     \* storage/audio: its files, the oldest first
    ts,            \* the last call of TTSService.synthesize_text
    up,            \* the locals of the upload requests served concurrently
    files          \* the files those requests write: path -> contents

vars == <<pc, stages, run, file, audio, duration, report, quality_score,
          result, tmp, first, pt, sc, XTTS_AVAILABLE, voices, uploads, deleted,
          issued, rq, tx, audio_dir, ts, up, files>>

intakeVars == <<pc, stages, run, file, audio, duration, report, quality_score,
                result, tmp, first>>

\* the locals of an intake run, without the tempdir
runVars == <<pc, stages, run, file, audio, duration, report, quality_score,
             result, first>>

apiVars == <<XTTS_AVAILABLE, voices, uploads, deleted, issued, rq, audio_dir>>

----------------------------------------------------------------------------
(* Fixed point and arithmetic helpers                                      *)

Unit == 10^3
SubOne == 10^3
ScoreOne == 100 * SubOne

Abs(x) == IF x < 0 THEN -x ELSE x
Min(a, b) == IF a < b THEN a ELSE b
Max(a, b) == IF a > b THEN a ELSE b
Sgn(x) == IF x < 0 THEN -1 ELSE IF x > 0 THEN 1 ELSE 0

\* a sequence given by a rule, computed once element by element, as a numpy
\* array is
AsSeq(f) == SubSeq(f, 1, Len(f))

\* division of a signed number by a positive one, rounding toward zero
TDiv(a, b) == Sgn(a) * (Abs(a) \div b)

RECURSIVE SqrtBetween(_, _, _)
SqrtBetween(n, lo, hi) ==
    IF lo >= hi THEN lo
    ELSE LET mid == (lo + hi + 1) \div 2
         IN IF mid * mid <= n THEN SqrtBetween(n, mid, hi)
            ELSE SqrtBetween(n, lo, mid - 1)

\* np.sqrt on a non-negative fixed-point number, rounded down
Sqrt(n) == SqrtBetween(n, 0, Min(n, 46340))

RECURSIVE SumSeq(_)
SumSeq(s) == IF s = <<>> THEN 0 ELSE Head(s) + SumSeq(Tail(s))

\* np.mean of a non-empty sequence
Mean(s) == TDiv(SumSeq(s), Len(s))

Map(Op(_), s) == [i \in 1..Len(s) |-> Op(s[i])]

Square(x) == x * x

\* x / (y + 1e-8) in units of SubOne: 1e-8 is below the fixed-point
\* resolution, and only decides the quotient when y is zero
Ratio(x, y) == IF y = 0 THEN (IF x = 0 THEN 0 ELSE 100 * SubOne)
               ELSE (x * SubOne) \div y

----------------------------------------------------------------------------
(* Framing: librosa's frames, hop_length samples apart                     *)

Hop == 2

At(s, i) == IF i \in 1..Len(s) THEN s[i] ELSE 0

NFrames(s) == (Len(s) + Hop - 1) \div Hop

\* frame k of s, zero-padded past the end
Frame(s, k) == <<At(s, Hop * (k - 1) + 1), At(s, Hop * (k - 1) + 2)>>

\* librosa.feature.rms(y=s)[0]: root-mean-square of each frame
FrameRms(s) == AsSeq([k \in 1..NFrames(s) |->
                  Sqrt((Square(Frame(s, k)[1]) + Square(Frame(s, k)[2])) \div Hop)])

\* librosa.stft: per frame << bin 0 (low), bin 1 (high) >>
Stft(s) == AsSeq([k \in 1..NFrames(s) |->
              <<Frame(s, k)[1] + Frame(s, k)[2], Frame(s, k)[1] - Frame(s, k)[2]>>])

\* np.abs(stft) and the sign that np.angle(stft) carries for a real bin
Magnitude(st) == AsSeq([k \in 1..Len(st) |-> <<Abs(st[k][1]), Abs(st[k][2])>>])
Phase(st) == AsSeq([k \in 1..Len(st) |-> <<Sgn(st[k][1]), Sgn(st[k][2])>>])

\* librosa.istft: the inverse transform; the result holds hop_length *
\* (len // hop_length) samples, so a trailing partial frame is dropped
Istft(st, len) ==
    AsSeq([i \in 1..(Hop * (len \div Hop)) |->
        LET k == (i + 1) \div Hop
        IN IF i % Hop = 1 THEN TDiv(st[k][1] + st[k][2], Hop)
           ELSE TDiv(st[k][1] - st[k][2], Hop)])

----------------------------------------------------------------------------
(* A call either returns a value or raises                                 *)

Ret(v) == [raised |-> FALSE, value |-> v]
Raise(e) == [raised |-> TRUE, error |-> e]
\* no call has returned yet
NoResult == [raised |-> FALSE, value |-> "none"]

----------------------------------------------------------------------------
(* Program constants                                                       *)

SampleRate == 22050
MinDuration == 3
MaxDuration == 300
\* top_db = 25 as an amplitude ratio: 10^(-25/20) = 0.05623, in 1/100000
TopDbRatio == 5623
\* np.percentile(frame_energy, 20)
NoisePercentile == 20
TargetRms == (2 * Unit) \div 10
ClipLo == -((99 * Unit) \div 100)
ClipHi == (99 * Unit) \div 100
\* librosa.effects.preemphasis: coef = 0.97, in hundredths
PreemphasisCoef == 97
RolloffReference == 4000
\* round(x, 2): one hundredth of a composite score
Cent == ScoreOne \div 100
DefaultEnhancedScore == 60 * Cent
DefaultLegacyScore == 50 * Cent

----------------------------------------------------------------------------
(* librosa.effects.trim(audio, top_db=25)                                  *)

\* a frame is non-silent when its level is less than top_db below the peak
\* frame; amplitude_to_db floors both levels at amin = 1e-5, which is below
\* the resolution, so an all-zero signal has every frame at 0 dB
NonSilent(r, peak) == peak = 0 \/ r * 100000 > TopDbRatio * peak

SeqMax(s) == IF s = <<>> THEN 0
             ELSE CHOOSE m \in {s[i] : i \in 1..Len(s)} :
                      \A i \in 1..Len(s) : s[i] <= m

TrimSilence(s) ==
    LET r == FrameRms(s)
        peak == SeqMax(r)
        loud == {k \in 1..Len(r) : NonSilent(r[k], peak)}
    IN IF loud = {} THEN <<>>
       ELSE LET lo == CHOOSE k \in loud : \A j \in loud : k <= j
                hi == CHOOSE k \in loud : \A j \in loud : j <= k
            IN SubSeq(s, Hop * (lo - 1) + 1, Min(Len(s), Hop * hi))

----------------------------------------------------------------------------
(* _apply_noise_reduction: spectral gating                                 *)

\* frame_energy = np.mean(magnitude, axis=0)
FrameEnergy(mag) == AsSeq([k \in 1..Len(mag) |-> (mag[k][1] + mag[k][2]) \div 2])

\* np.percentile(v, q), linear interpolation between the order statistics
Percentile(v, q) ==
    LET sorted == SortSeq(v, LAMBDA a, b : a < b)
        pos == q * (Len(v) - 1)
        i == pos \div 100
        frac == pos % 100
    IN IF i + 1 >= Len(v) THEN sorted[Len(v)]
       ELSE sorted[i + 1] + ((sorted[i + 2] - sorted[i + 1]) * frac) \div 100

\* mutant: the noise floor is kept from the processed file of the run before
NoiseThresholdCached(frame_energy) ==
    IF run - 1 \in DOMAIN tmp
    THEN Percentile(FrameEnergy(Magnitude(Stft(tmp[run - 1]))), NoisePercentile)
    ELSE Percentile(frame_energy, NoisePercentile)

NoiseThreshold(frame_energy) == Percentile(frame_energy, NoisePercentile)

\* mutant: a frame at 1.5 times the noise floor is gated as well
NoiseMaskInclusive(frame_energy) ==
    LET noise_threshold == NoiseThreshold(frame_energy)
    IN AsSeq([k \in 1..Len(frame_energy) |-> 2 * frame_energy[k] <= 3 * noise_threshold])

\* noise_mask = frame_energy < noise_threshold * 1.5
NoiseMask(frame_energy) ==
    LET noise_threshold == NoiseThreshold(frame_energy)
    IN AsSeq([k \in 1..Len(frame_energy) |-> 2 * frame_energy[k] < 3 * noise_threshold])

\* magnitude[:, i] *= 0.3 on the masked frames
Attenuate(m) == (3 * m) \div 10

Gate(mag, mask) ==
    AsSeq([k \in 1..Len(mag) |->
        IF mask[k] THEN <<Attenuate(mag[k][1]), Attenuate(mag[k][2])>> ELSE mag[k]])

\* stft_cleaned = magnitude * np.exp(1j * phase)
Recombine(mag, ph) ==
    AsSeq([k \in 1..Len(mag) |-> <<mag[k][1] * ph[k][1], mag[k][2] * ph[k][2]>>])

\* the try block of _apply_noise_reduction; `raises` says that one of its
\* library calls raises on this buffer
NoiseReductionBody(s, raises) ==
    IF raises \/ s = <<>> THEN Raise("denoise")
    ELSE LET st == Stft(s)
             mag == Magnitude(st)
             mask == NoiseMask(FrameEnergy(mag))
         IN Ret(Istft(Recombine(Gate(mag, mask), Phase(st)), Len(s)))

\* mutant: no except clause, the error reaches the caller
ApplyNoiseReductionReraise(s, raises) == NoiseReductionBody(s, raises)

\* _apply_noise_reduction: except Exception -> return audio
ApplyNoiseReduction(s, raises) ==
    LET r == NoiseReductionBody(s, raises)
    IN IF r.raised THEN Ret(s) ELSE r

----------------------------------------------------------------------------
(* RMS normalization, pre-emphasis, clipping                               *)

\* current_rms = np.sqrt(np.mean(rms**2))
CurrentRms(s) == Sqrt(Mean(Map(Square, FrameRms(s))))

\* mutant: the gain is taken from the peak sample, not from the RMS
NormalizeToPeak(s) ==
    LET peak == SeqMax(AsSeq([i \in 1..Len(s) |-> Abs(s[i])]))
    IN IF peak > 0
       THEN AsSeq([i \in 1..Len(s) |-> TDiv(s[i] * TargetRms, peak)])
       ELSE s

\* audio_normalized = audio_denoised * (target_rms / current_rms)
Normalize(s) ==
    LET current_rms == CurrentRms(s)
    IN IF current_rms > 0
       THEN AsSeq([i \in 1..Len(s) |-> TDiv(s[i] * TargetRms, current_rms)])
       ELSE s

\* librosa.effects.preemphasis: y[n] = x[n] - coef * x[n-1], the sample
\* before the first one extrapolated linearly
Preemphasis(s) ==
    AsSeq([i \in 1..Len(s) |->
        LET prev == IF i > 1 THEN s[i - 1] ELSE 2 * s[1] - At(s, 2)
        IN TDiv(100 * s[i] - PreemphasisCoef * prev, 100)])

\* mutant: only the upper limit is applied
ClipUpperOnly(s) == AsSeq([i \in 1..Len(s) |-> Min(ClipHi, s[i])])

\* np.clip(audio_filtered, -0.99, 0.99)
Clip(s) == AsSeq([i \in 1..Len(s) |-> Max(ClipLo, Min(ClipHi, s[i]))])

----------------------------------------------------------------------------
(* _calculate_enhanced_audio_quality                                       *)

\* spectral_energy = np.mean(magnitude, axis=1), one value per bin
SpectralEnergy(mag) ==
    <<Mean(AsSeq([k \in 1..Len(mag) |-> mag[k][1]])),
      Mean(AsSeq([k \in 1..Len(mag) |-> mag[k][2]]))>>

\* bins 85..254 of the code's 1025 lie in the lower half of the spectrum,
\* which is bin 0 of the model's two
VoiceEnergy(spectral_energy) == spectral_energy[1]

TotalEnergy(spectral_energy) == (spectral_energy[1] + spectral_energy[2]) \div 2

\* np.std(v)
Std(v) == LET m == Mean(v)
          IN Sqrt(Mean(AsSeq([i \in 1..Len(v) |-> Square(v[i] - m)])))

\* librosa.feature.spectral_rolloff: per frame the lowest bin frequency below
\* which 85% of the magnitude lies; the two bins sit at 0 Hz and sr/2
Rolloff(mag) ==
    AsSeq([k \in 1..Len(mag) |->
        IF 100 * mag[k][1] >= 85 * (mag[k][1] + mag[k][2]) THEN 0
        ELSE SampleRate \div 2])

\* librosa.feature.zero_crossing_rate, averaged: sign changes per sample
\* (in units of SubOne); zero counts as positive
ZcrMean(s) ==
    (Cardinality({i \in 2..Len(s) : (s[i] < 0) # (s[i - 1] < 0)}) * SubOne) \div Len(s)

\* librosa.effects.hpss: the harmonic part is taken as the part of each frame
\* that is steady over the frame (bin 0), the percussive part as the part
\* that changes (bin 1); the two sum to the signal
Harmonic(s) ==
    LET st == Stft(s)
    IN Istft(AsSeq([k \in 1..Len(st) |-> <<st[k][1], 0>>]), Hop * NFrames(s))
Percussive(s) ==
    LET st == Stft(s)
    IN Istft(AsSeq([k \in 1..Len(st) |-> <<0, st[k][2]>>]), Hop * NFrames(s))

\* mutant: the clarity ratio is not limited to 1.0
SnrScoreUnclipped(s) ==
    LET se == SpectralEnergy(Magnitude(Stft(s)))
    IN Ratio(VoiceEnergy(se), TotalEnergy(se))

SnrScore(s) ==
    LET se == SpectralEnergy(Magnitude(Stft(s)))
    IN Min(Ratio(VoiceEnergy(se), TotalEnergy(se)), SubOne)

DynamicScore(s) ==
    LET rms == FrameRms(s)
    IN Min(Ratio(Std(rms), Mean(rms)) * 2, SubOne)

RolloffScore(s) ==
    Min(Ratio(Mean(Rolloff(Magnitude(Stft(s)))), RolloffReference), SubOne)

ZcrScore(s) == Min(ZcrMean(s) * 15, SubOne)

HnrScore(s) ==
    LET harmonic_energy == Mean(Map(Square, Harmonic(s)))
        percussive_energy == Mean(Map(Square, Percussive(s)))
    IN Ratio(harmonic_energy, harmonic_energy + percussive_energy)

\* the five sub-scores of a buffer
SubScores(s) ==
    [snr |-> SnrScore(s), dynamic |-> DynamicScore(s), rolloff |-> RolloffScore(s),
     zcr |-> ZcrScore(s), hnr |-> HnrScore(s)]

\* mutant: the weights of rolloff and articulation are exchanged
WeightedScoreSwapped(r) ==
    r.snr * 25 + r.dynamic * 15 + r.rolloff * 15 + r.zcr * 20 + r.hnr * 25

\* quality_score = snr*0.25 + dynamic*0.15 + rolloff*0.2 + zcr*0.15 + hnr*0.25
WeightedScore(r) ==
    r.snr * 25 + r.dynamic * 15 + r.rolloff * 20 + r.zcr * 15 + r.hnr * 25

\* round(x, 2): to the nearest hundredth, a tie to the even one
Round2(x) ==
    LET q == x \div Cent
        rem == x % Cent
    IN IF 2 * rem > Cent \/ (2 * rem = Cent /\ q % 2 = 1) THEN (q + 1) * Cent
       ELSE q * Cent

\* return round(min(quality_score, 1.0), 2)
CompositeScore(r) == Round2(Min(WeightedScore(r), ScoreOne))

NoReport == [snr |-> 0, dynamic |-> 0, rolloff |-> 0, zcr |-> 0, hnr |-> 0]

\* the try block of _calculate_enhanced_audio_quality
EnhancedQualityBody(s, raises) ==
    IF raises \/ s = <<>> THEN Raise("score")
    ELSE Ret([score |-> CompositeScore(SubScores(s)), report |-> SubScores(s)])

\* _calculate_enhanced_audio_quality: except Exception -> return 0.6
CalculateEnhancedAudioQuality(s, raises) ==
    LET r == EnhancedQualityBody(s, raises)
    IN IF r.raised THEN Ret([score |-> DefaultEnhancedScore, report |-> NoReport])
       ELSE r

----------------------------------------------------------------------------
(* _calculate_audio_quality, the legacy scorer                             *)

\* librosa.feature.spectral_centroid: per frame the magnitude-weighted mean
\* of the bin frequencies 0 and sr/2
SpectralCentroid(mag) ==
    AsSeq([k \in 1..Len(mag) |->
        IF mag[k][1] + mag[k][2] = 0 THEN 0
        ELSE ((SampleRate \div 2) * mag[k][2]) \div (mag[k][1] + mag[k][2])])

LegacyQualityBody(s, raises) ==
    IF raises \/ s = <<>> THEN Raise("score")
    ELSE LET energy_score == Min((Mean(FrameRms(s)) * 10 * SubOne) \div Unit, SubOne)
             clarity_score ==
                 Min(Ratio(Mean(SpectralCentroid(Magnitude(Stft(s)))), 2000), SubOne)
             speech_score == Min(ZcrMean(s) * 20, SubOne)
         IN Ret(Round2(Min(energy_score * 30 + clarity_score * 40 + speech_score * 30,
                           ScoreOne)))

\* mutant: the legacy scorer returns the full scorer's default
CalculateAudioQualityWrongDefault(s, raises) ==
    LET r == LegacyQualityBody(s, raises)
    IN IF r.raised THEN Ret(DefaultEnhancedScore) ELSE r

\* _calculate_audio_quality: except Exception -> return 0.5
CalculateAudioQuality(s, raises) ==
    LET r == LegacyQualityBody(s, raises)
    IN IF r.raised THEN Ret(DefaultLegacyScore) ELSE r

----------------------------------------------------------------------------
(* _apply_voice_characteristics: the pitch-transfer fallback               *)

\* np.nanmean(pitch[pitch > 0]): the mean of the positive estimates, NaN
\* (valid = FALSE) when there are none
PitchMean(track) ==
    LET positive == SelectSeq(track, LAMBDA f : f > 0)
    IN IF positive = <<>> THEN [valid |-> FALSE, hz |-> 0]
       ELSE [valid |-> TRUE, hz |-> Mean(positive)]

\* voice_pitch_mean / basic_pitch_mean, in thousandths
PitchShiftRatio(voice_mean, basic_mean) == (voice_mean.hz * 1000) \div basic_mean.hz

\* mutant: only the upper limit is applied
ClipRatioUpperOnly(ratio) == Min(2000, ratio)

\* np.clip(pitch_shift_ratio, 0.5, 2.0)
ClipRatio(ratio) == Max(500, Min(2000, ratio))

\* 2^(k/12) in thousandths, k = 0..11
SemitoneRatio == <<1000, 1059, 1122, 1189, 1260, 1335, 1414, 1498, 1587, 1682, 1782, 1888>>

\* 12 * np.log2(ratio) for a ratio in thousandths, in whole semitones
\* (rounded down); np.log2(0) is -inf, far below any bound
RECURSIVE Semitones(_)
Semitones(ratio) ==
    IF ratio <= 0 THEN -1000
    ELSE IF ratio >= 2000 THEN 12 + Semitones(ratio \div 2)
    ELSE IF ratio < 1000 THEN Semitones(ratio * 2) - 12
    ELSE CHOOSE k \in 0..11 :
             /\ SemitoneRatio[k + 1] <= ratio
             /\ (k < 11 => ratio < SemitoneRatio[k + 2])

\* the try block of _apply_voice_characteristics; `raises` says that one of
\* its library calls (yin, pitch_shift) raises
VoiceCharacteristicsBody(voice_pitch, basic_pitch, raises) ==
    LET voice_pitch_mean == PitchMean(voice_pitch)
        basic_pitch_mean == PitchMean(basic_pitch)
    IN IF raises THEN Raise("pitch")
       ELSE IF voice_pitch_mean.valid /\ basic_pitch_mean.valid /\ basic_pitch_mean.hz > 0
       THEN LET raw == PitchShiftRatio(voice_pitch_mean, basic_pitch_mean)
                pitch_shift_ratio == ClipRatio(raw)
            IN Ret([audio |-> "modified_audio", shifted |-> TRUE, raw_ratio |-> raw,
                    ratio |-> pitch_shift_ratio, n_steps |-> Semitones(pitch_shift_ratio)])
       ELSE Ret([audio |-> "basic_audio", shifted |-> FALSE, raw_ratio |-> 0,
                 ratio |-> 0, n_steps |-> 0])

\* mutant: no except clause, the error reaches the synthesis
ApplyVoiceCharacteristicsReraise(voice_pitch, basic_pitch, raises) ==
    VoiceCharacteristicsBody(voice_pitch, basic_pitch, raises)

\* _apply_voice_characteristics: except Exception -> return basic_audio
ApplyVoiceCharacteristicsCall(voice_pitch, basic_pitch, raises) ==
    LET r == VoiceCharacteristicsBody(voice_pitch, basic_pitch, raises)
    IN IF r.raised
       THEN Ret([audio |-> "basic_audio", shifted |-> FALSE, raw_ratio |-> 0,
                 ratio |-> 0, n_steps |-> 0])
       ELSE r

----------------------------------------------------------------------------
(* Inputs                                                                  *)

\* number of intake runs (uploads) of one behaviour
MaxRuns == 3
\* length of the generated buffers handed to the scorers directly
MaxWaveLen == 3

Seconds(tenths) == (tenths * SampleRate) \div 10

\* decoded lengths, in samples at SampleRate: 2.9 s, one sample short of 3 s,
\* 3.0 s, 10 s, 300.0 s, one sample over 300 s, 300.1 s
SampleCounts ==
    {Seconds(29), Seconds(30) - 1, Seconds(30), Seconds(100), Seconds(3000),
     Seconds(3000) + 1, Seconds(3001)}

Silence == <<0, 0, 0, 0>>
Tone == <<500, 400, 500, 400>>
Spiky == <<500, -500, 30, 30, 30, 30, 30, 30, 30, 30, 30, 30, 30, 30, 30, 30>>

\* waveforms of decoded uploads (amplitudes in 1/Unit): silence, a steady
\* tone, an alternating one, speech between silences, speech with a quiet
\* stretch, a spike over a low floor, an odd number of samples
Waves ==
    {Silence, Tone, <<500, -500, 500, -500>>, <<0, 0, 500, -300, 400, 0, 0, 0>>,
     <<500, 400, 30, 20, 300, 200>>, Spiky, <<300, -100, 200>>}

File(ok, n, wave, dn, scr) ==
    [decodable |-> ok, n |-> n, wave |-> wave, denoise_raises |-> dn,
     score_raises |-> scr]

Corrupt == File(FALSE, 0, <<>>, FALSE, FALSE)

\* the uploads: a corrupt container, a tone of every length, every waveform
\* at 10 s, and buffers on which a library call of the denoiser or of the
\* scorer raises
Files ==
    {Corrupt}
    \cup {File(TRUE, n, Tone, FALSE, FALSE) : n \in SampleCounts}
    \cup {File(TRUE, Seconds(100), w, FALSE, FALSE) : w \in Waves}
    \cup {File(TRUE, Seconds(100), w, TRUE, FALSE) : w \in {Tone, Spiky}}
    \cup {File(TRUE, Seconds(100), w, FALSE, TRUE) : w \in {Tone, Silence}}
    \cup {File(TRUE, Seconds(100), Tone, TRUE, TRUE)}

Amplitudes == {-500, 0, 30, 500}

\* every buffer of 1..MaxWaveLen samples over Amplitudes
Buffers ==
    UNION {[1..n -> Amplitudes] : n \in 1..MaxWaveLen} \cup Waves

PitchEstimates == {0, 50, 80, 100, 150, 200, 400}

\* librosa.yin output: one or two frame estimates
PitchTracks ==
    {<<f>> : f \in PitchEstimates} \cup {<<f, g>> : f, g \in PitchEstimates}

\* number of uploads (voice_ids issued) of one behaviour
MaxVoices == 2

\* the uploads of the HTTP interface: a corrupt container, a tone of 2.9 s,
\* of 10 s and of 300.1 s, and a spike over a low floor of 10 s
UploadFiles ==
    {Corrupt, File(TRUE, Seconds(29), Tone, FALSE, FALSE),
     File(TRUE, Seconds(100), Tone, FALSE, FALSE),
     File(TRUE, Seconds(3001), Tone, FALSE, FALSE),
     File(TRUE, Seconds(100), Spiky, FALSE, FALSE)}

\* what TTS(model_name) and the statements after it do in _initialize_xtts
LoadOutcomes == {"loaded", "load_raises", "check_raises"}

\* what tts_to_file does in _test_voice_quality
TestOutcomes == {"file", "no_file", "raises"}

\* number of syntheses whose files storage/audio holds at a time
MaxAudio == 1

\* what a synthesis does: tts.save raises and no temp mp3 is there, a later
\* statement raises, or every statement runs
SynthesisOutcomes == {"save_raises", "later_raises", "returns"}

----------------------------------------------------------------------------
(* An HTTP request and its locals                                          *)

\* an error message: its text, and the quantities the text states
Message(text, quantities) == [text |-> text, quantities |-> quantities]

NoResponse == [status |-> 0, detail |-> Message(<<>>, {})]

\* a VoiceCloningService before __init__ has run
NoService == [fallback_mode |-> FALSE, xtts_model |-> "None"]

NoRequest ==
    [kind |-> "none", pc |-> "import", voice_id |-> 0, file |-> Corrupt,
     svc |-> NoService, result |-> NoResult, test |-> "none", path |-> "none",
     asked |-> <<>>, response |-> NoResponse,
     \* temp_<uuid>.mp3 of the request's fallback synthesis: "none", "written"
     \* (on disk) or "removed"
     temp_mp3 |-> "none",
     \* status_code of the HTTPException the handler's try block raised, or 0
     client_error |-> 0]

----------------------------------------------------------------------------
(* The intake run: _process_audio_sample, one action per statement group   *)

\* mutant: the np.clip statement is missing, the filtered buffer goes
\* straight on to scoring
NextStageSkipsClip(p) ==
    CASE p = "received" -> "decoded"
      [] p = "decoded" -> "duration_checked"
      [] p = "duration_checked" -> "trimmed"
      [] p = "trimmed" -> "denoised"
      [] p = "denoised" -> "normalized"
      [] p = "normalized" -> "clipped"
      [] p = "clipped" -> "scored"
      [] p = "scored" -> "accepted"
      [] OTHER -> "failed"

\* the order of the statements of _process_audio_sample
NextStage(p) ==
    CASE p = "received" -> "decoded"
      [] p = "decoded" -> "duration_checked"
      [] p = "duration_checked" -> "trimmed"
      [] p = "trimmed" -> "denoised"
      [] p = "denoised" -> "normalized"
      [] p = "normalized" -> "filtered"
      [] p = "filtered" -> "clipped"
      [] p = "clipped" -> "scored"
      [] p = "scored" -> "accepted"
      [] OTHER -> "failed"

Init ==
    /\ pc = "idle"
    /\ stages = <<>>
    /\ run = 0
    /\ file = Corrupt
    /\ audio = <<>>
    /\ duration = 0
    /\ report = NoReport
    /\ quality_score = 0
    /\ result = NoResult
    /\ tmp = <<>>
    /\ first = <<>>
    /\ pt = [called |-> FALSE]
    /\ sc = [called |-> FALSE]
    /\ XTTS_AVAILABLE = FALSE
    /\ voices = <<>>
    /\ uploads = {}
    /\ deleted = {}
    /\ issued = 0
    /\ rq = NoRequest
    /\ tx = [calls |-> 0]
    /\ audio_dir = <<>>
    /\ ts = [called |-> FALSE]
    /\ up = <<>>
    /\ files = <<>>

\* what a finished run shows to its caller
Outcome(res, written) ==
    IF res.raised THEN [accepted |-> FALSE, quality_score |-> 0, length |-> 0]
    ELSE [accepted |-> TRUE, quality_score |-> res.value.quality_score,
          length |-> Len(written)]

Remember(res, written) ==
    first' = IF first = <<>> THEN <<[file |-> file, outcome |-> Outcome(res, written)]>>
             ELSE first

Advance ==
    /\ pc' = NextStage(pc)
    /\ stages' = Append(stages, NextStage(pc))

\* except Exception as e: raise Exception(f"Audio processing failed: {e}")
Fail(e) ==
    /\ pc' = "failed"
    /\ result' = Raise(e)
    /\ Remember(Raise(e), <<>>)
    /\ UNCHANGED <<stages, run, file, audio, duration, report, quality_score, tmp>>

\* create_voice_profile calls _process_audio_sample(audio_file_path, voice_id)
Receive ==
    /\ pc \in {"idle", "accepted", "failed"}
    /\ run < MaxRuns
    /\ \E f \in Files : file' = f
    /\ run' = run + 1
    /\ pc' = "received"
    /\ stages' = <<"received">>
    /\ audio' = <<>>
    /\ duration' = 0
    /\ report' = NoReport
    /\ quality_score' = 0
    /\ result' = NoResult
    /\ UNCHANGED <<tmp, first, pt, sc, apiVars, tx, ts, up, files>>

\* audio, sr = librosa.load(audio_file_path, sr=22050)
Decode ==
    /\ pc = "received"
    /\ IF file.decodable
       THEN /\ audio' = file.wave
            /\ Advance
            /\ UNCHANGED <<run, file, duration, report, quality_score, result, tmp, first>>
       ELSE Fail("decode")
    /\ UNCHANGED <<pt, sc, apiVars, tx, ts, up, files>>

\* mutant: the bounds themselves are rejected (<= and >=)
DurationErrorInclusive(d) ==
    IF d <= MinDuration * SampleRate THEN "too_short"
    ELSE IF d >= MaxDuration * SampleRate THEN "too_long"
    ELSE "none"

\* the two duration tests; d is the decoded length in samples
DurationError(d) ==
    IF d < MinDuration * SampleRate THEN "too_short"
    ELSE IF d > MaxDuration * SampleRate THEN "too_long"
    ELSE "none"

\* duration = librosa.get_duration(y=audio, sr=sr), then the two tests
CheckDuration ==
    /\ pc = "decoded"
    /\ IF DurationError(file.n) = "none"
       THEN /\ duration' = file.n
            /\ Advance
            /\ UNCHANGED <<run, file, audio, report, quality_score, result, tmp, first>>
       ELSE Fail(DurationError(file.n))
    /\ UNCHANGED <<pt, sc, apiVars, tx, ts, up, files>>

\* a stage that replaces the buffer by `call`, or fails when it raises
BufferStage(from, call) ==
    /\ pc = from
    /\ IF call.raised THEN Fail(call.error)
       ELSE /\ audio' = call.value
            /\ Advance
            /\ UNCHANGED <<run, file, duration, report, quality_score, result, tmp, first>>
    /\ UNCHANGED <<pt, sc, apiVars, tx, ts, up, files>>

\* audio_trimmed, _ = librosa.effects.trim(audio, top_db=25)
Trim == BufferStage("duration_checked", Ret(TrimSilence(audio)))

\* audio_denoised = self._apply_noise_reduction(audio_trimmed, sr)
Denoise == BufferStage("trimmed", ApplyNoiseReduction(audio, file.denoise_raises))

\* rms, current_rms, audio_normalized; librosa.feature.rms raises on an
\* empty buffer
NormalizeStage ==
    BufferStage("denoised", IF audio = <<>> THEN Raise("empty") ELSE Ret(Normalize(audio)))

\* audio_filtered = librosa.effects.preemphasis(audio_normalized)
Filter == BufferStage("normalized", Ret(Preemphasis(audio)))

\* audio_final = np.clip(audio_filtered, -0.99, 0.99)
ClipStage == BufferStage("filtered", Ret(Clip(audio)))

\* quality_score = await self._calculate_enhanced_audio_quality(audio_final, sr)
Score ==
    /\ pc = "clipped"
    /\ LET r == CalculateEnhancedAudioQuality(audio, file.score_raises)
       IN IF r.raised THEN Fail(r.error)
          ELSE /\ quality_score' = r.value.score
               /\ report' = r.value.report
               /\ Advance
               /\ UNCHANGED <<run, file, audio, duration, result, tmp, first>>
    /\ UNCHANGED <<pt, sc, apiVars, tx, ts, up, files>>

\* the dictionary _process_audio_sample returns
IntakeResult ==
    [duration |-> duration, sample_rate |-> SampleRate,
     quality_score |-> quality_score, processed_path |-> run]

\* sf.write(processed_path, audio_final, sr); return {...}
Accept ==
    /\ pc = "scored"
    /\ tmp' = (run :> audio) @@ tmp
    /\ result' = Ret(IntakeResult)
    /\ Remember(Ret(IntakeResult), audio)
    /\ Advance
    /\ UNCHANGED <<run, file, audio, duration, report, quality_score, pt, sc, apiVars, tx, ts, up, files>>

Next ==
    \/ Receive
    \/ Decode
    \/ CheckDuration
    \/ Trim
    \/ Denoise
    \/ NormalizeStage
    \/ Filter
    \/ ClipStage
    \/ Score
    \/ Accept

Spec == Init /\ [][Next]_vars

----------------------------------------------------------------------------
(* Direct calls of the two scorers and of the pitch transfer               *)

CallEnhancedQuality ==
    /\ ~sc.called
    /\ \E s \in Buffers, raises \in BOOLEAN :
           sc' = [called |-> TRUE, fn |-> "enhanced", audio |-> s, raises |-> raises,
                  returned |-> CalculateEnhancedAudioQuality(s, raises)]
    /\ UNCHANGED <<intakeVars, pt, apiVars, tx, ts, up, files>>

CallLegacyQuality ==
    /\ ~sc.called
    /\ \E s \in Buffers, raises \in BOOLEAN :
           sc' = [called |-> TRUE, fn |-> "legacy", audio |-> s, raises |-> raises,
                  returned |-> CalculateAudioQuality(s, raises)]
    /\ UNCHANGED <<intakeVars, pt, apiVars, tx, ts, up, files>>

NextScorer == CallEnhancedQuality \/ CallLegacyQuality

SpecScorer == Init /\ [][NextScorer]_vars

ApplyVoiceCharacteristics ==
    /\ ~pt.called
    /\ \E voice_pitch \in PitchTracks, basic_pitch \in PitchTracks, raises \in BOOLEAN :
           pt' = [called |-> TRUE, voice_pitch |-> voice_pitch,
                  basic_pitch |-> basic_pitch, raises |-> raises,
                  returned |-> ApplyVoiceCharacteristicsCall(voice_pitch, basic_pitch, raises)]
    /\ UNCHANGED <<intakeVars, sc, apiVars, tx, ts, up, files>>

NextPitch == ApplyVoiceCharacteristics

SpecPitch == Init /\ [][NextPitch]_vars

----------------------------------------------------------------------------
(* Direct calls of loudness normalization and of noise reduction           *)

\* the buffers of the scorers, and buffers whose second frame lies just
\* below, at and just above 1.5 times the 20th percentile of the two frames
GateBuffers ==
    Buffers \cup {<<70, 70, 119, 119>>, <<70, 70, 120, 120>>, <<70, 70, 121, 121>>,
                  <<70, -70, 120, 120>>}

\* current_rms, audio_normalized of _process_audio_sample
CallNormalize ==
    /\ ~sc.called
    /\ \E s \in GateBuffers :
           sc' = [called |-> TRUE, fn |-> "normalize", audio |-> s, raises |-> FALSE,
                  returned |-> Ret(Normalize(s))]
    /\ UNCHANGED <<intakeVars, pt, apiVars, tx, ts, up, files>>

\* _apply_noise_reduction; magnitude and phase are its locals of these names
\* when stft_cleaned is built
CallNoiseReduction ==
    /\ ~sc.called
    /\ \E s \in GateBuffers, raises \in BOOLEAN :
           LET mag == Magnitude(Stft(s))
           IN sc' = [called |-> TRUE, fn |-> "denoise", audio |-> s, raises |-> raises,
                     returned |-> ApplyNoiseReduction(s, raises),
                     magnitude |-> IF raises THEN <<>>
                                   ELSE Gate(mag, NoiseMask(FrameEnergy(mag))),
                     phase |-> IF raises THEN <<>> ELSE Phase(Stft(s))]
    /\ UNCHANGED <<intakeVars, pt, apiVars, tx, ts, up, files>>

NextDsp == CallNormalize \/ CallNoiseReduction

SpecDsp == Init /\ [][NextDsp]_vars

----------------------------------------------------------------------------
(* The HTTP interface of endpoints/voice_cloning.py: upload, clone, delete *)

otherVars == <<runVars, pt, sc, tx, ts, up, files>>

\* the messages of the two duration tests
DurationMessage(e) ==
    IF e = "too_short"
    THEN Message(<<"Audio sample too short. Minimum 3 seconds required.">>,
                 {[value |-> MinDuration, unit |-> "seconds"]})
    ELSE Message(<<"Audio sample too long. Maximum 5 minutes allowed.">>,
                 {[value |-> MaxDuration \div 60, unit |-> "minutes"]})

\* raise Exception(f"<prefix>{str(e)}")
Wrapped(prefix, m) == Message(<<prefix>> \o m.text, m.quantities)

\* the try block of _process_audio_sample as one call; `processed` is what
\* sf.write puts into processed_<voice_id>.wav
ProcessAudioSampleBody(f) ==
    IF ~f.decodable THEN Raise(Message(<<"librosa.load error">>, {}))
    ELSE IF DurationError(f.n) # "none" THEN Raise(DurationMessage(DurationError(f.n)))
    ELSE LET audio_denoised ==
                 ApplyNoiseReduction(TrimSilence(f.wave), f.denoise_raises).value
         IN IF audio_denoised = <<>>
            THEN Raise(Message(<<"librosa.feature.rms error">>, {}))
            ELSE LET audio_final == Clip(Preemphasis(Normalize(audio_denoised)))
                 IN Ret([duration |-> f.n, sample_rate |-> SampleRate,
                         quality_score |->
                             CalculateEnhancedAudioQuality(audio_final,
                                                           f.score_raises).value.score,
                         processed |-> audio_final])

\* _process_audio_sample: except Exception as e -> raise "Audio processing
\* failed: ..."
ProcessAudioSample(f) ==
    LET r == ProcessAudioSampleBody(f)
    IN IF r.raised THEN Raise(Wrapped("Audio processing failed: ", r.error)) ELSE r

\* except Exception as e: raise HTTPException(status_code=500, detail=str(e))
ServerError(m) == [status |-> 500, detail |-> m]

Ok == [status |-> 200, detail |-> Message(<<>>, {})]

\* __init__ and _initialize_xtts
NewService(available, load) ==
    IF ~available THEN [fallback_mode |-> TRUE, xtts_model |-> "None"]
    ELSE [fallback_mode |-> load # "loaded",
          xtts_model |-> IF load = "load_raises" THEN "None" ELSE "TTS"]

\* mutant: the branch looks at the model only
UsesXttsIgnoresFallback(svc) == svc.xtts_model # "None"

\* if not self.fallback_mode and self.xtts_model
UsesXtts(svc) == ~svc.fallback_mode /\ svc.xtts_model # "None"

\* is_xtts_available
IsXttsAvailable(svc) ==
    XTTS_AVAILABLE /\ ~svc.fallback_mode /\ svc.xtts_model # "None"

\* the try block of _test_voice_quality
TestVoiceQualityBody(svc, outcome) ==
    IF svc.xtts_model # "None" /\ outcome = "raises" THEN Raise("tts_to_file")
    ELSE IF svc.xtts_model # "None" /\ outcome = "file" THEN Ret(80 * Cent)
    ELSE Ret(50 * Cent)

\* mutant: no except clause in _test_voice_quality
TestVoiceQualityReraise(svc, outcome) == TestVoiceQualityBody(svc, outcome)

\* _test_voice_quality: except Exception -> 0.3
TestVoiceQuality(svc, outcome) ==
    LET r == TestVoiceQualityBody(svc, outcome)
    IN IF r.raised THEN Ret(30 * Cent) ELSE r

\* profile_data of create_voice_profile, as the endpoint copies it; name,
\* language, description and timestamps are left out
ProfileData(svc, voice_id, audio_info, outcome) ==
    LET test_result == TestVoiceQuality(svc, outcome)
    IN [voice_id |-> voice_id, sample_duration |-> audio_info.duration,
        quality_score |-> IF UsesXtts(svc) /\ ~test_result.raised
                          THEN test_result.value
                          ELSE audio_info.quality_score]

HasProfile(v) == v \in DOMAIN voices /\ voices[v].profile # <<>>
HasSample(v) == v \in DOMAIN voices /\ voices[v].sample

\* mutant: only profile.json is removed
RmtreeKeepsSample(fs, v) == [fs EXCEPT ![v].profile = <<>>]

\* mutant: only sample.wav is removed
RmtreeKeepsProfile(fs, v) == [fs EXCEPT ![v].sample = FALSE]

\* shutil.rmtree(voice_dir)
Rmtree(fs, v) == [u \in DOMAIN fs \ {v} |-> fs[u]]

Idle == rq.pc \in {"idle", "done"}

\* the module is imported: try: from TTS.api import TTS
ImportModule ==
    /\ rq.pc = "import"
    /\ \E ok \in BOOLEAN : XTTS_AVAILABLE' = ok
    /\ rq' = [rq EXCEPT !.pc = "idle"]
    /\ UNCHANGED <<voices, uploads, deleted, issued, tmp, audio_dir, otherVars>>

\* POST /upload-sample: the format and the size test
UploadVoiceSample ==
    /\ Idle
    /\ issued < MaxVoices
    /\ \/ \E f \in UploadFiles :
              rq' = [NoRequest EXCEPT !.kind = "upload", !.pc = "construct", !.file = f]
       \/ \E detail \in {"Unsupported audio format. Use WAV, MP3, FLAC, or M4A",
                         "File too large. Maximum size is 50MB"} :
              rq' = [NoRequest EXCEPT !.kind = "upload", !.pc = "done",
                        !.client_error = 400,
                        !.response = ServerError(Message(<<"400: ", detail>>, {}))]
    /\ UNCHANGED <<XTTS_AVAILABLE, voices, uploads, deleted, issued, tmp, audio_dir, otherVars>>

\* POST /clone
CloneVoice ==
    /\ Idle
    /\ Len(audio_dir) < 2 * MaxAudio
    /\ \E v \in 1..MaxVoices :
           rq' = [NoRequest EXCEPT !.kind = "clone", !.pc = "construct", !.voice_id = v]
    /\ UNCHANGED <<XTTS_AVAILABLE, voices, uploads, deleted, issued, tmp, audio_dir, otherVars>>

\* DELETE /profiles/{voice_id}
DeleteVoiceProfile ==
    /\ Idle
    /\ \E v \in 1..MaxVoices :
           rq' = [NoRequest EXCEPT !.kind = "delete", !.pc = "construct", !.voice_id = v]
    /\ UNCHANGED <<XTTS_AVAILABLE, voices, uploads, deleted, issued, tmp, audio_dir, otherVars>>

\* GET /profiles/{voice_id}: if not profile: raise HTTPException(404), which
\* the outer except turns into a 500
GetVoiceProfile ==
    /\ Idle
    /\ \E v \in 1..MaxVoices :
           rq' = IF HasProfile(v)
                 THEN [NoRequest EXCEPT !.kind = "profile", !.pc = "done", !.voice_id = v,
                                        !.response = Ok]
                 ELSE [NoRequest EXCEPT
                         !.kind = "profile", !.pc = "done", !.voice_id = v,
                         !.client_error = 404,
                         !.response = ServerError(Message(<<"404: ", "Voice profile not found">>, {}))]
    /\ UNCHANGED <<XTTS_AVAILABLE, voices, uploads, deleted, issued, tmp, audio_dir, otherVars>>

\* GET /sample/{voice_id}: if not os.path.exists(sample_path): raise
\* HTTPException(404), which the outer except turns into a 500
GetVoiceSample ==
    /\ Idle
    /\ \E v \in 1..MaxVoices :
           rq' = IF HasSample(v)
                 THEN [NoRequest EXCEPT !.kind = "sample", !.pc = "done", !.voice_id = v,
                                        !.response = Ok]
                 ELSE [NoRequest EXCEPT
                         !.kind = "sample", !.pc = "done", !.voice_id = v,
                         !.client_error = 404,
                         !.response = ServerError(Message(<<"404: ", "Voice sample not found">>, {}))]
    /\ UNCHANGED <<XTTS_AVAILABLE, voices, uploads, deleted, issued, tmp, audio_dir, otherVars>>

\* voice_cloning_service = VoiceCloningService()
Construct ==
    /\ rq.pc = "construct"
    /\ \E load \in LoadOutcomes :
           rq' = [rq EXCEPT !.svc = NewService(XTTS_AVAILABLE, load),
                            !.pc = IF rq.kind = "upload" THEN "write_temp" ELSE "verify"]
    /\ UNCHANGED <<XTTS_AVAILABLE, voices, uploads, deleted, issued, tmp, audio_dir, otherVars>>

\* voice_id = str(uuid.uuid4()); the upload is written to the tempdir
WriteTempFile ==
    /\ rq.kind = "upload" /\ rq.pc = "write_temp"
    /\ issued' = issued + 1
    /\ uploads' = uploads \cup {issued + 1}
    /\ rq' = [rq EXCEPT !.voice_id = issued + 1, !.pc = "create"]
    /\ UNCHANGED <<XTTS_AVAILABLE, voices, deleted, tmp, audio_dir, otherVars>>

\* result = await voice_cloning_service.create_voice_profile(...)
CreateVoiceProfile ==
    /\ rq.kind = "upload" /\ rq.pc = "create"
    /\ LET audio_info == ProcessAudioSample(rq.file)
       IN IF audio_info.raised
          THEN /\ rq' = [rq EXCEPT !.result = audio_info, !.pc = "finally"]
               /\ UNCHANGED <<voices, tmp>>
          ELSE \E outcome \in TestOutcomes :
                 /\ tmp' = (rq.voice_id :> audio_info.value.processed) @@ tmp
                 /\ voices' = (rq.voice_id :> [sample |-> TRUE, profile |-> <<>>]) @@ voices
                 /\ rq' = [rq EXCEPT
                             !.test = IF UsesXtts(rq.svc) THEN outcome ELSE "none",
                             !.result = Ret(ProfileData(rq.svc, rq.voice_id,
                                                        audio_info.value, outcome)),
                             !.pc = "save"]
    /\ UNCHANGED <<XTTS_AVAILABLE, uploads, deleted, issued, audio_dir, otherVars>>

\* storage_service.save_voice_profile(voice_id, profile_data); makedirs, open
\* or json.dump may raise
SaveVoiceProfile ==
    /\ rq.kind = "upload" /\ rq.pc = "save"
    /\ \E raises \in BOOLEAN :
         IF raises
         THEN /\ rq' = [rq EXCEPT
                          !.result = Raise(Message(<<"save_voice_profile error">>, {})),
                          !.pc = "finally"]
              /\ UNCHANGED voices
         ELSE /\ voices' = [voices EXCEPT ![rq.voice_id].profile = <<rq.result.value>>]
              /\ rq' = [rq EXCEPT !.pc = "finally"]
    /\ UNCHANGED <<XTTS_AVAILABLE, uploads, deleted, issued, tmp, audio_dir, otherVars>>

\* mutant: the temporary file is removed after the try block, not in finally
RemoveTempFileOnSuccess ==
    /\ rq.kind = "upload" /\ rq.pc = "finally"
    /\ uploads' = IF rq.result.raised THEN uploads ELSE uploads \ {rq.voice_id}
    /\ rq' = [rq EXCEPT
                !.response = IF rq.result.raised THEN ServerError(rq.result.error) ELSE Ok,
                !.pc = "done"]
    /\ UNCHANGED <<XTTS_AVAILABLE, voices, deleted, issued, tmp, audio_dir, otherVars>>

\* finally: os.remove(temp_file_path); then the response or the outer except
RemoveTempFile ==
    /\ rq.kind = "upload" /\ rq.pc = "finally"
    /\ uploads' = uploads \ {rq.voice_id}
    /\ rq' = [rq EXCEPT
                !.response = IF rq.result.raised THEN ServerError(rq.result.error) ELSE Ok,
                !.pc = "done"]
    /\ UNCHANGED <<XTTS_AVAILABLE, voices, deleted, issued, tmp, audio_dir, otherVars>>

\* profile = storage_service.get_voice_profile(voice_id); if not profile:
\* raise HTTPException(404), which the outer except turns into a 500
VerifyProfile ==
    /\ rq.kind \in {"clone", "delete"} /\ rq.pc = "verify"
    /\ rq' = IF HasProfile(rq.voice_id)
             THEN [rq EXCEPT !.pc = IF rq.kind = "clone" THEN "synthesize"
                                    ELSE "service_delete"]
             ELSE [rq EXCEPT
                     !.client_error = 404,
                     !.response = ServerError(Message(<<"404: ", "Voice profile not found">>, {})),
                     !.pc = "done"]
    /\ UNCHANGED <<XTTS_AVAILABLE, voices, uploads, deleted, issued, tmp, audio_dir, otherVars>>

\* a caller of the instance asks is_xtts_available() before it synthesizes
IsXttsAvailableCall ==
    /\ rq.kind = "clone" /\ rq.pc = "synthesize" /\ rq.asked = <<>>
    /\ rq' = [rq EXCEPT !.asked = <<IsXttsAvailable(rq.svc)>>]
    /\ UNCHANGED <<XTTS_AVAILABLE, voices, uploads, deleted, issued, tmp, audio_dir, otherVars>>

\* the files of one synthesis in storage/audio: <audio_id>.wav of sf.write,
\* then <audio_id>.json of save_audio_metadata
AudioFiles ==
    <<[name |-> "<audio_id>.wav", isfile |-> TRUE],
      [name |-> "<audio_id>.json", isfile |-> TRUE]>>

\* temp_path of _synthesize_fallback after the call
TempMp3(outcome) ==
    CASE outcome = "save_raises" -> "none"
      [] outcome = "later_raises" -> "written"
      [] OTHER -> "removed"

\* synthesize_with_cloned_voice: the sample test and the branch on the
\* engine; then save_audio_metadata and the response
SynthesizeWithClonedVoice ==
    /\ rq.kind = "clone" /\ rq.pc = "synthesize"
    /\ IF ~HasSample(rq.voice_id)
       THEN /\ rq' = [rq EXCEPT
                        !.response = ServerError(Message(<<"Voice sample not found for voice_id: ">>, {})),
                        !.pc = "done"]
            /\ UNCHANGED audio_dir
       ELSE \E outcome \in SynthesisOutcomes :
              /\ rq' = [rq EXCEPT
                          !.path = IF UsesXtts(rq.svc) THEN "xtts" ELSE "fallback",
                          !.temp_mp3 = IF UsesXtts(rq.svc) THEN "none" ELSE TempMp3(outcome),
                          !.response =
                              IF outcome # "returns"
                              THEN ServerError(Message(<<IF UsesXtts(rq.svc)
                                                         THEN "XTTS synthesis failed: "
                                                         ELSE "Fallback synthesis failed: ">>, {}))
                              ELSE Ok,
                          !.pc = "done"]
              /\ audio_dir' = IF outcome = "returns" THEN audio_dir \o AudioFiles
                              ELSE audio_dir
    /\ UNCHANGED <<XTTS_AVAILABLE, voices, uploads, deleted, issued, tmp, otherVars>>

\* if os.path.exists(voice_dir): shutil.rmtree(voice_dir); rmtree removes the
\* whole directory or, when the first unlink is refused, nothing
RemoveVoiceDir(from, to, prefix, response) ==
    /\ rq.kind = "delete" /\ rq.pc = from
    /\ \E raises \in BOOLEAN :
         IF raises /\ rq.voice_id \in DOMAIN voices
         THEN /\ rq' = [rq EXCEPT
                          !.response = ServerError(Message(<<prefix, "shutil.rmtree error">>, {})),
                          !.pc = "done"]
              /\ UNCHANGED <<voices, deleted>>
         ELSE /\ voices' = IF rq.voice_id \in DOMAIN voices
                           THEN Rmtree(voices, rq.voice_id) ELSE voices
              /\ deleted' = deleted \cup {v \in DOMAIN voices : HasProfile(v) /\ ~HasProfile(v)'}
              /\ rq' = [rq EXCEPT !.response = response, !.pc = to]
    /\ UNCHANGED <<XTTS_AVAILABLE, uploads, issued, tmp, audio_dir, otherVars>>

\* await voice_cloning_service.delete_voice_profile(voice_id)
ServiceDelete ==
    RemoveVoiceDir("service_delete", "storage_delete",
                   "Failed to delete voice profile: ", NoResponse)

\* storage_service.delete_voice_profile(voice_id); return {"message": ...}
StorageDelete == RemoveVoiceDir("storage_delete", "done", "", Ok)

NextApi ==
    \/ ImportModule
    \/ UploadVoiceSample
    \/ CloneVoice
    \/ DeleteVoiceProfile
    \/ GetVoiceProfile
    \/ GetVoiceSample
    \/ Construct
    \/ WriteTempFile
    \/ CreateVoiceProfile
    \/ SaveVoiceProfile
    \/ RemoveTempFile
    \/ VerifyProfile
    \/ IsXttsAvailableCall
    \/ SynthesizeWithClonedVoice
    \/ ServiceDelete
    \/ StorageDelete

SpecApi == Init /\ [][NextApi]_vars

----------------------------------------------------------------------------
(* LocalStorageService.cleanup_old_files, called while requests are served. *)
(* Nothing in the program writes to storage/uploads or storage/cache, so    *)
(* of the three directories it walks only storage/audio has entries.        *)

\* _cleanup_directory on the listing of a directory, the oldest entry first:
\* the first `older` entries have an mtime before cutoff_time; of these the
\* files are removed, but for the ones whose os.remove raises OSError (busy)
CleanupDirectory(listing, older, busy) ==
    LET kept[i \in 0..Len(listing)] ==
            IF i = 0 THEN <<>>
            ELSE IF ~listing[i].isfile \/ i > older \/ i \in busy
                 THEN Append(kept[i - 1], listing[i])
                 ELSE kept[i - 1]
    IN kept[Len(listing)]

\* mutant: the cleanup walks storage_path as a whole, the voice directories
\* included
CleanupOldFilesWalksStorage ==
    /\ \E older \in 0..Len(audio_dir) : \E busy \in SUBSET (1..older) :
           /\ audio_dir' = CleanupDirectory(audio_dir, older, busy)
           /\ voices' = IF older = 0 THEN voices
                        ELSE [v \in DOMAIN voices |-> [sample |-> FALSE, profile |-> <<>>]]
    /\ UNCHANGED <<XTTS_AVAILABLE, uploads, deleted, issued, rq, tmp, otherVars>>

\* cleanup_old_files(max_age_hours): cutoff_time is now - max_age_hours, for
\* any max_age_hours, so any number of entries can be older than it
CleanupOldFiles ==
    /\ \E older \in 0..Len(audio_dir) : \E busy \in SUBSET (1..older) :
           audio_dir' = CleanupDirectory(audio_dir, older, busy)
    /\ UNCHANGED <<XTTS_AVAILABLE, voices, uploads, deleted, issued, rq, tmp, otherVars>>

NextStore == NextApi \/ CleanupOldFiles

SpecStore == Init /\ [][NextStore]_vars

----------------------------------------------------------------------------
(* Upload requests served concurrently: upload_voice_sample with           *)
(* create_voice_profile, statement group by statement group, every request *)
(* interleaved with the others at every step.  The TTS library is absent,  *)
(* so every VoiceCloningService instance is in fallback mode.              *)

\* number of upload requests in flight in one behaviour
MaxUploads == 2

\* the uploads: two accepted ones with different waveforms, and a short one
ConcurrentFiles ==
    {File(TRUE, Seconds(100), Tone, FALSE, FALSE),
     File(TRUE, Seconds(100), Spiky, FALSE, FALSE),
     File(TRUE, Seconds(29), Tone, FALSE, FALSE)}

\* temp_file_path: tempdir/<voice_id>_<filename>
UploadPath(voice_id, filename) ==
    [dir |-> "tmp", voice_id |-> voice_id, name |-> filename]

\* mutant: one processed.wav for all requests
ProcessedPathShared(voice_id) ==
    [dir |-> "tmp", voice_id |-> 0, name |-> "processed_.wav"]

\* processed_path: tempdir/processed_<voice_id>.wav
ProcessedPath(voice_id) ==
    [dir |-> "tmp", voice_id |-> voice_id, name |-> "processed_.wav"]

\* sample_path: storage/voices/<voice_id>/sample.wav
SamplePath(voice_id) ==
    [dir |-> "voices", voice_id |-> voice_id, name |-> "sample.wav"]

\* profile_path: storage/voices/<voice_id>/profile.json
ProfilePath(voice_id) ==
    [dir |-> "voices", voice_id |-> voice_id, name |-> "profile.json"]

\* open(path, 'wb').write, sf.write, shutil.copy2, json.dump
WriteFile(fs, path, contents) ==
    [q \in DOMAIN fs \cup {path} |-> IF q = path THEN contents ELSE fs[q]]

\* os.remove(path)
RemoveFile(fs, path) == [q \in DOMAIN fs \ {path} |-> fs[q]]

\* str(uuid.uuid4()): an id no request has
Uuid4 == 1 + Cardinality({r \in DOMAIN up : up[r].voice_id # 0})

\* a request arrives: content = await audio_file.read(); the two clients
\* use the same file name
Arrive ==
    /\ Len(up) < MaxUploads
    /\ \E content \in ConcurrentFiles :
           up' = Append(up, [pc |-> "write_temp", content |-> content,
                             filename |-> "voice.wav", voice_id |-> 0,
                             audio_info |-> NoResult, profile_data |-> NoResult])
    /\ UNCHANGED <<intakeVars, pt, sc, apiVars, tx, ts, files>>

\* voice_id = str(uuid.uuid4()); the content is written to temp_file_path
WriteUpload(r) ==
    /\ up[r].pc = "write_temp"
    /\ files' = WriteFile(files, UploadPath(Uuid4, up[r].filename), up[r].content)
    /\ up' = [up EXCEPT ![r].voice_id = Uuid4, ![r].pc = "process"]
    /\ UNCHANGED <<intakeVars, pt, sc, apiVars, tx, ts>>

\* _process_audio_sample(audio_file_path, voice_id): librosa.load reads the
\* temporary file, sf.write writes processed_<voice_id>.wav
ProcessUpload(r) ==
    /\ up[r].pc = "process"
    /\ LET audio_info ==
               ProcessAudioSample(files[UploadPath(up[r].voice_id, up[r].filename)])
       IN IF audio_info.raised
          THEN /\ up' = [up EXCEPT ![r].audio_info = audio_info, ![r].pc = "finally"]
               /\ UNCHANGED files
          ELSE /\ files' = WriteFile(files, ProcessedPath(up[r].voice_id),
                                     audio_info.value.processed)
               /\ up' = [up EXCEPT
                           ![r].audio_info =
                               Ret([duration |-> audio_info.value.duration,
                                    sample_rate |-> audio_info.value.sample_rate,
                                    quality_score |-> audio_info.value.quality_score,
                                    processed_path |-> ProcessedPath(up[r].voice_id)]),
                           ![r].pc = "copy"]
    /\ UNCHANGED <<intakeVars, pt, sc, apiVars, tx, ts>>

\* os.makedirs(voice_dir); shutil.copy2(audio_info["processed_path"],
\* sample_path); profile_data
CopySample(r) ==
    /\ up[r].pc = "copy"
    /\ files' = WriteFile(files, SamplePath(up[r].voice_id),
                          files[up[r].audio_info.value.processed_path])
    /\ up' = [up EXCEPT
                ![r].profile_data =
                    Ret(ProfileData(NewService(FALSE, "loaded"), up[r].voice_id,
                                    up[r].audio_info.value, "none")),
                ![r].pc = "save"]
    /\ UNCHANGED <<intakeVars, pt, sc, apiVars, tx, ts>>

\* storage_service.save_voice_profile(voice_id, profile_data)
SaveProfile(r) ==
    /\ up[r].pc = "save"
    /\ files' = WriteFile(files, ProfilePath(up[r].voice_id), up[r].profile_data.value)
    /\ up' = [up EXCEPT ![r].pc = "finally"]
    /\ UNCHANGED <<intakeVars, pt, sc, apiVars, tx, ts>>

\* finally: if os.path.exists(temp_file_path): os.remove(temp_file_path)
RemoveUpload(r) ==
    /\ up[r].pc = "finally"
    /\ files' = RemoveFile(files, UploadPath(up[r].voice_id, up[r].filename))
    /\ up' = [up EXCEPT ![r].pc = "done"]
    /\ UNCHANGED <<intakeVars, pt, sc, apiVars, tx, ts>>

NextUploads ==
    \/ Arrive
    \/ \E r \in DOMAIN up : WriteUpload(r)
    \/ \E r \in DOMAIN up : ProcessUpload(r)
    \/ \E r \in DOMAIN up : CopySample(r)
    \/ \E r \in DOMAIN up : SaveProfile(r)
    \/ \E r \in DOMAIN up : RemoveUpload(r)

SpecUploads == Init /\ [][NextUploads]_vars

----------------------------------------------------------------------------
(* TextProcessor.clean_text of text_processor.py.  A text is a sequence of *)
(* characters; the texts are single lines, so ^ is the start of the text   *)
(* and $ its end, and are written with the characters of TextChars: a      *)
(* substitution whose pattern needs another character (~ ` > | ( : @ or a  *)
(* digit, a URL scheme) matches nowhere in them and is left out.           *)

TextChars == {"a", " ", "#", "-", "*", "_", "[", "]"}

\* \s
Whitespace == {" "}

\* the end of the longest run of characters of class C that starts at i
\* (i - 1 when t[i] is not of the class)
RunEnd(t, i, C) ==
    CHOOSE j \in (i - 1)..Len(t) :
        /\ \A k \in i..j : t[k] \in C
        /\ j = Len(t) \/ t[j + 1] \notin C

\* the first position from i on where d occurs in t, 0 when there is none
Find(t, i, d) ==
    LET at == {j \in i..(Len(t) - Len(d) + 1) : SubSeq(t, j, j + Len(d) - 1) = d}
    IN IF at = {} THEN 0 ELSE CHOOSE j \in at : \A k \in at : j <= k

\* a match that ends at `end` and is replaced by repl; end = 0 is no match
Hit(end, repl) == [end |-> end, repl |-> repl]

\* re.sub scanning from position i: the leftmost match is replaced and the
\* scan goes on behind it
RECURSIVE ReSub(_, _, _)
ReSub(t, hits, i) ==
    IF i > Len(t) THEN <<>>
    ELSE IF hits[i].end = 0 THEN <<t[i]>> \o ReSub(t, hits, i + 1)
    ELSE hits[i].repl \o ReSub(t, hits, hits[i].end + 1)


\* (d)(.*?)\1 -> \2 for a delimiter d
Enclosed(t, i, d) ==
    LET close == Find(t, i + Len(d), d)
    IN IF Find(t, i, d) = i /\ close > 0
       THEN Hit(close + Len(d) - 1, SubSeq(t, i + Len(d), close - 1))
       ELSE Hit(0, <<>>)

RemoveMarkdownFormatting(text) ==
    LET \* re.sub(pattern, repl, t), Match(t, i) being the pattern's match at i
        Sub(Match(_, _), t) == ReSub(t, AsSeq([i \in 1..Len(t) |-> Match(t, i)]), 1)
        \* ^#{1,6}\s+
        Header(t, i) ==
            LET h == RunEnd(t, 1, {"#"})
                w == RunEnd(t, h + 1, Whitespace)
            IN IF i = 1 /\ h \in 1..6 /\ w > h THEN Hit(w, <<>>) ELSE Hit(0, <<>>)
        \* (\*\*|__)(.*?)\1
        Bold(t, i) ==
            IF Enclosed(t, i, <<"*", "*">>).end # 0 THEN Enclosed(t, i, <<"*", "*">>)
            ELSE Enclosed(t, i, <<"_", "_">>)
        \* (\*|_)(.*?)\1
        Italic(t, i) ==
            IF Enclosed(t, i, <<"*">>).end # 0 THEN Enclosed(t, i, <<"*">>)
            ELSE Enclosed(t, i, <<"_">>)
        \* ^(---|\*\*\*|___)\s*$
        Rule(t, i) ==
            IF /\ i = 1 /\ Len(t) >= 3
               /\ SubSeq(t, 1, 3) \in {<<"-", "-", "-">>, <<"*", "*", "*">>, <<"_", "_", "_">>}
               /\ RunEnd(t, 4, Whitespace) = Len(t)
            THEN Hit(Len(t), <<>>) ELSE Hit(0, <<>>)
        \* ^[\s]*[-*+]\s+
        ListMarker(t, i) ==
            LET s == RunEnd(t, 1, Whitespace)
                w == RunEnd(t, s + 2, Whitespace)
            IN IF i = 1 /\ s < Len(t) /\ t[s + 1] \in {"-", "*", "+"} /\ w > s + 1
               THEN Hit(w, <<>>) ELSE Hit(0, <<>>)
        \* ^[\s]*:?-+:?[\s]*$
        TableRule(t, i) ==
            LET s == RunEnd(t, 1, Whitespace)
                d == RunEnd(t, s + 1, {"-"})
            IN IF i = 1 /\ d > s /\ RunEnd(t, d + 1, Whitespace) = Len(t)
               THEN Hit(Len(t), <<>>) ELSE Hit(0, <<>>)
    IN Sub(TableRule, Sub(ListMarker, Sub(Rule, Sub(Italic, Sub(Bold, Sub(Header, text))))))

RemoveLinks(text) ==
    LET \* re.sub(pattern, repl, t), Match(t, i) being the pattern's match at i
        Sub(Match(_, _), t) == ReSub(t, AsSeq([i \in 1..Len(t) |-> Match(t, i)]), 1)
        \* \[([^\]]+)\]\[[^\]]*\] -> \1
        ReferenceLink(t, i) ==
            LET c == Find(t, i + 1, <<"]">>)
                e == Find(t, c + 2, <<"]">>)
            IN IF t[i] = "[" /\ c > i + 1 /\ c < Len(t) /\ t[c + 1] = "[" /\ e > 0
               THEN Hit(e, SubSeq(t, i + 1, c - 1)) ELSE Hit(0, <<>>)
    IN Sub(ReferenceLink, text)

RemoveBrackets(text) ==
    LET \* re.sub(pattern, repl, t), Match(t, i) being the pattern's match at i
        Sub(Match(_, _), t) == ReSub(t, AsSeq([i \in 1..Len(t) |-> Match(t, i)]), 1)
        \* \[[^\]]*\]
        Bracket(t, i) ==
            IF t[i] = "[" /\ Find(t, i + 1, <<"]">>) > 0
            THEN Hit(Find(t, i + 1, <<"]">>), <<>>) ELSE Hit(0, <<>>)
    IN Sub(Bracket, text)

RemoveSpecialCharacters(text) ==
    LET \* re.sub(pattern, repl, t), Match(t, i) being the pattern's match at i
        Sub(Match(_, _), t) == ReSub(t, AsSeq([i \in 1..Len(t) |-> Match(t, i)]), 1)
        \* [^\w\s\u00C0-\u024F\u1E00-\u1EFF.,!?;:\-\'"]: of TextChars
        \* the class holds # * [ ]
        Special(t, i) ==
            IF t[i] \in {"#", "*", "[", "]"} THEN Hit(i, <<>>) ELSE Hit(0, <<>>)
        \* -{2,} -> ' - '
        Dashes(t, i) ==
            IF RunEnd(t, i, {"-"}) > i THEN Hit(RunEnd(t, i, {"-"}), <<" ", "-", " ">>)
            ELSE Hit(0, <<>>)
        \* _{2,} -> ' '
        Underscores(t, i) ==
            IF RunEnd(t, i, {"_"}) > i THEN Hit(RunEnd(t, i, {"_"}), <<" ">>)
            ELSE Hit(0, <<>>)
    IN Sub(Underscores, Sub(Dashes, Sub(Special, text)))

\* cleaned.strip(), and line.strip() of the one line
Strip(t) ==
    LET black == {i \in 1..Len(t) : t[i] \notin Whitespace}
    IN IF black = {} THEN <<>>
       ELSE SubSeq(t, CHOOSE i \in black : \A k \in black : i <= k,
                      CHOOSE i \in black : \A k \in black : k <= i)

NormalizeWhitespace(text) ==
    LET \* re.sub(pattern, repl, t), Match(t, i) being the pattern's match at i
        Sub(Match(_, _), t) == ReSub(t, AsSeq([i \in 1..Len(t) |-> Match(t, i)]), 1)
        \* \s+ -> ' '
        Spaces(t, i) ==
            IF t[i] \in Whitespace THEN Hit(RunEnd(t, i, Whitespace), <<" ">>)
            ELSE Hit(0, <<>>)
    IN Strip(Sub(Spaces, text))

\* clean_text(text, remove_markdown, remove_links, remove_brackets,
\* normalize_whitespace, remove_special_chars)
CleanText(text, o) ==
    LET a == IF o.remove_markdown THEN RemoveMarkdownFormatting(text) ELSE text
        b == IF o.remove_links THEN RemoveLinks(a) ELSE a
        c == IF o.remove_brackets THEN RemoveBrackets(b) ELSE b
        d == IF o.remove_special_chars THEN RemoveSpecialCharacters(c) ELSE c
        e == IF o.normalize_whitespace THEN NormalizeWhitespace(d) ELSE d
    IN Strip(e)

Options ==
    [remove_markdown : BOOLEAN, remove_links : BOOLEAN, remove_brackets : BOOLEAN,
     normalize_whitespace : BOOLEAN, remove_special_chars : BOOLEAN]

DefaultOptions ==
    [remove_markdown |-> TRUE, remove_links |-> TRUE, remove_brackets |-> TRUE,
     normalize_whitespace |-> TRUE, remove_special_chars |-> FALSE]

\* length of the texts that are taken exhaustively
MaxTextLen == 4

\* every text of up to MaxTextLen characters over a, space, # and -, and
\* longer texts with emphasis, brackets and reference links
Texts ==
    UNION {[1..n -> {"a", " ", "#", "-"}] : n \in 0..MaxTextLen}
    \cup {<<"*", "_", "a", "_", "*">>, <<"*", "*", "a", "*", "*">>,
          <<"_", "_", "a", "_", "_">>, <<"*", "a", "*", " ", "a">>,
          <<"[", "a", "]", "[", "a", "]">>, <<"a", " ", "[", "a", "]", " ", "a">>,
          <<"-", "[", "]">>, <<"[", "[", "a", "]", "]">>, <<"*", " ", "a">>,
          <<"-", "-", "-", " ">>, <<"a", "_", "_", "a">>, <<"*", "*", "*">>,
          <<"#", " ", "*", "a", "*">>, <<"a", "#", "[", "*", "]">>}

\* a caller cleans a text
CallCleanText ==
    /\ tx.calls = 0
    /\ \E t \in Texts, o \in Options :
           tx' = [calls |-> 1, text |-> t, options |-> o, cleaned |-> CleanText(t, o),
                  before |-> t]
    /\ UNCHANGED <<intakeVars, pt, sc, apiVars, ts, up, files>>

\* the caller cleans the text it got back, with the same options
CleanAgain ==
    /\ tx.calls = 1
    /\ tx' = [tx EXCEPT !.calls = 2, !.before = tx.cleaned,
                        !.cleaned = CleanText(tx.cleaned, tx.options)]
    /\ UNCHANGED <<intakeVars, pt, sc, apiVars, ts, up, files>>

NextText == CallCleanText \/ CleanAgain

SpecText == Init /\ [][NextText]_vars

----------------------------------------------------------------------------
(* TTSService.synthesize_text of tts_service.py and                        *)
(* TextProcessor.detect_language.  The texts are written with TextChars    *)
(* and the letters T t h e l v x and a_grave (a with a grave accent); of  *)
(* the word lists and character classes of detect_language the model has   *)
(* the words and characters that can be written with these.                *)

\* self.supported_languages
SupportedLanguages == {"vi", "en", "fr"}

\* settings.max_text_length (10000), scaled to the short texts of the model
max_text_length == 5

\* str.lower
Lower(t) == [i \in 1..Len(t) |-> IF t[i] = "T" THEN "t" ELSE t[i]]

\* re.search(class, text)
SearchChars(class, text) == \E i \in 1..Len(text) : text[i] \in class

\* sum(1 for word in words if word in text_lower)
WordScore(words, text_lower) ==
    Cardinality({k \in 1..Len(words) : Find(text_lower, 1, words[k]) > 0})

\* TextProcessor.detect_language; 'et' is twice in french_words
DetectLanguage(text) ==
    LET text_lower == Lower(text)
        vietnamese_score ==
            (IF SearchChars({"a_grave"}, text) THEN 3 ELSE 0)
            + WordScore(<<<<"v", "a_grave">>>>, text_lower)
        french_score ==
            (IF SearchChars({"a_grave"}, text) THEN 2 ELSE 0)
            + WordScore(<<<<"l", "e">>, <<"e", "t">>, <<"a_grave">>, <<"e", "t">>>>, text_lower)
        english_score ==
            WordScore(<<<<"t", "h", "e">>, <<"a">>, <<"t", "h", "a", "t">>,
                        <<"h", "a", "v", "e">>>>, text_lower)
    IN IF vietnamese_score > french_score /\ vietnamese_score > english_score THEN "vi"
       ELSE IF french_score > english_score THEN "fr"
       ELSE IF english_score > 0 THEN "en"
       ELSE "unknown"

\* if voice_id and not voice_id.startswith('gtts_'): None and '' are false
IsClonedVoice(voice_id) ==
    voice_id.given /\ voice_id.id # <<>> /\ voice_id.id[1] # "gtts_"

\* processed_text after the clean_text test
ProcessedText(text, clean_text) ==
    IF clean_text THEN CleanText(text, DefaultOptions) ELSE text

\* no engine has synthesized yet
NoSynthesis == [engine |-> "none"]

\* the try block of lines 50-58: synthesize_with_cloned_voice cleans the text
\* it is given once more and reports it as original_text
ClonedSynthesisBody(processed_text, language, voice_id, cloned) ==
    IF cloned = "raises"
    THEN Raise([source |-> "cloning", text |-> "synthesize_with_cloned_voice error"])
    ELSE Ret([engine |-> "cloned", original_text |-> processed_text,
              processed_text |-> CleanText(processed_text, DefaultOptions),
              language |-> language, voice_id |-> voice_id])

\* except Exception as e: print(...): the failure is dropped and nothing
\* has been synthesized
ExceptPrint(r) == IF r.raised THEN Ret(NoSynthesis) ELSE r

\* mutant: no except clause around the cloned synthesis
TryClonedVoiceReraise(processed_text, language, voice_id, cloned) ==
    ClonedSynthesisBody(processed_text, language, voice_id, cloned)

\* lines 48-61: except Exception: print(...) and go on without a synthesis
TryClonedVoice(processed_text, language, voice_id, cloned) ==
    ExceptPrint(ClonedSynthesisBody(processed_text, language, voice_id, cloned))

\* lines 63-119: the regular engine
RegularSynthesis(text, processed_text, language, voice_id, gtts) ==
    IF gtts = "raises"
    THEN Raise([source |-> "tts", text |-> "TTS synthesis failed: "])
    ELSE Ret([engine |-> "gtts", original_text |-> text,
              processed_text |-> processed_text,
              language |-> language, voice_id |-> voice_id])

\* the cloned branch returns from inside the try block; without a result
\* of it the regular engine runs
ReturnOrGoOn(attempt, regular) ==
    IF attempt.raised \/ attempt.value.engine # "none" THEN attempt ELSE regular

\* lines 42-45: language 'auto' is replaced by the detected one, 'vi' when
\* nothing is detected
ResolveLanguage(language, processed_text) ==
    IF language # "auto" THEN language
    ELSE LET detected == DetectLanguage(processed_text)
         IN IF detected = "unknown" THEN "vi" ELSE detected

\* lines 38-119 of synthesize_text, with processed_text computed
SynthesizeProcessed(text, processed_text, language, voice_id, cloned, gtts) ==
    IF Len(processed_text) > max_text_length
    THEN Raise([source |-> "argument", text |-> "Text too long. Maximum length: "])
    ELSE LET lang == ResolveLanguage(language, processed_text)
         IN ReturnOrGoOn(IF IsClonedVoice(voice_id)
                         THEN TryClonedVoice(processed_text, lang, voice_id, cloned)
                         ELSE Ret(NoSynthesis),
                         RegularSynthesis(text, processed_text, lang, voice_id, gtts))

\* TTSService.synthesize_text; speed only sets gTTS's slow and the time
\* stretch and is left out
SynthesizeText(text, language, voice_id, clean_text, cloned, gtts) ==
    IF language \notin SupportedLanguages
    THEN Raise([source |-> "argument", text |-> "Unsupported language: "])
    ELSE SynthesizeProcessed(text, ProcessedText(text, clean_text), language,
                             voice_id, cloned, gtts)

\* the language argument: the supported ones, 'auto' and an unsupported one
LanguageArgs == SupportedLanguages \cup {"auto", "de"}

\* the voice_id argument: None, '', a default voice and a cloned voice
VoiceIdArgs ==
    {[given |-> FALSE, id |-> <<>>], [given |-> TRUE, id |-> <<>>],
     [given |-> TRUE, id |-> <<"gtts_", "vi">>], [given |-> TRUE, id |-> <<"uuid">>]}

\* the text argument: English, French, Vietnamese, a_grave alone, no known word,
\* a header, an upper-case letter, texts at and over max_text_length, one
\* that is over it before cleaning only, and the empty text
SpokenTexts ==
    {<<"t", "h", "e">>, <<"l", "e">>, <<"v", "a_grave">>, <<"a_grave">>, <<"x">>,
     <<"#", " ", "t", "h", "e">>, <<"T", "h", "e">>, <<"e", "t">>,
     <<"x", "x", "x", "x", "x">>, <<"x", "x", "x", "x", "x", "x">>,
     <<"#", " ", "x", "x", "x", "x", "x">>, <<>>}

\* what the cloned synthesis and the regular engine do
EngineOutcomes == {"returns", "raises"}

\* one call of synthesize_text
CallSynthesizeText ==
    /\ ~ts.called
    /\ \E text \in SpokenTexts, language \in LanguageArgs, voice_id \in VoiceIdArgs,
          clean_text \in BOOLEAN, cloned \in EngineOutcomes, gtts \in EngineOutcomes :
           ts' = [called |-> TRUE, text |-> text, language |-> language,
                  voice_id |-> voice_id, clean_text |-> clean_text,
                  cloned |-> cloned, gtts |-> gtts,
                  returned |-> SynthesizeText(text, language, voice_id, clean_text,
                                              cloned, gtts)]
    /\ UNCHANGED <<intakeVars, pt, sc, apiVars, tx, up, files>>

NextTts == CallSynthesizeText

SpecTts == Init /\ [][NextTts]_vars

----------------------------------------------------------------------------
(* Claims                                                                  *)

StageOrder ==
    <<"received", "decoded", "duration_checked", "trimmed", "denoised",
      "normalized", "filtered", "clipped", "scored", "accepted">>

IsPrefix(s, t) == Len(s) <= Len(t) /\ \A i \in 1..Len(s) : s[i] = t[i]

Running == pc \notin {"idle", "accepted", "failed"}

InRange(s, lo, hi) == \A i \in 1..Len(s) : lo <= s[i] /\ s[i] <= hi

\* C1: every intake run passes through decode, duration check, trim,
\* denoise, normalization, pre-emphasis, clip, score and accept in that
\* order, each at most once; an accepted run has passed through all of them;
\* a failed run stays failed: it passes through no further stage and writes
\* no file.
C1_StageOrder ==
    /\ [](/\ IsPrefix(stages, StageOrder)
          /\ (Running \/ pc = "accepted" => pc = stages[Len(stages)])
          /\ (pc = "accepted" => stages = StageOrder))
    /\ [][(pc = "failed" /\ run' = run)
             => (pc' = "failed" /\ stages' = stages /\ tmp' = tmp)]_vars

\* C1 witness: a second run is accepted after the first run failed.
C1_Witness ==
    /\ run = 2
    /\ pc = "accepted"
    /\ stages = StageOrder
    /\ ~first[1].outcome.accepted

\* C2: a decoded sample is rejected with a duration error exactly when it is
\* shorter than 3.0 s or longer than 300.0 s; 3.0 s and 300.0 s pass; an
\* accepted result reports a duration within [3.0 s, 300.0 s].
C2_DurationBounds ==
    LET lo == 3 * SampleRate
        hi == 300 * SampleRate
        decoded == Len(stages) >= 2
    IN /\ (pc = "failed" /\ decoded) =>
              /\ result.error = "too_short" <=> file.n < lo
              /\ result.error = "too_long" <=> file.n > hi
       /\ Len(stages) >= 3 => (lo <= file.n /\ file.n <= hi)
       /\ (decoded /\ pc \in {"failed", "duration_checked"}) =>
              (pc = "failed" <=> (file.n < lo \/ file.n > hi))
       /\ pc = "accepted" =>
              (lo <= result.value.duration /\ result.value.duration <= hi)

\* C2 witness: samples of exactly 3.0 s and of exactly 300.0 s were accepted.
C2_Witness ==
    /\ pc = "accepted"
    /\ file.n = 300 * SampleRate
    /\ first[1].file.n = 3 * SampleRate
    /\ first[1].outcome.accepted

\* C3: every sample of every processed file an accepted run wrote lies in
\* [-0.99, 0.99]; the file holds the clipped buffer, which neither scoring nor
\* saving changes.
C3_OutputClipped ==
    /\ [](/\ \A id \in DOMAIN tmp :
                 InRange(tmp[id], -((99 * Unit) \div 100), (99 * Unit) \div 100)
          /\ pc = "accepted" => tmp[run] = audio)
    /\ [][(pc \in {"clipped", "scored"}) => (audio' = audio)]_vars

\* C3 witness: an accepted run whose buffer clipping had to limit.
C3_Witness ==
    /\ pc = "accepted"
    /\ \E i \in 1..Len(tmp[run]) : Abs(tmp[run][i]) = (99 * Unit) \div 100
    /\ ~InRange(Preemphasis(Normalize(ApplyNoiseReduction(TrimSilence(file.wave),
                    file.denoise_raises).value)), ClipLo, ClipHi)

AllZero(s) == \A i \in 1..Len(s) : s[i] = 0

\* C4: an all-zero buffer of valid duration is rejected at the trim stage:
\* its run passes no stage after the duration check, is never accepted, and
\* no processed file is written for it.
C4_SilenceRejected ==
    (file.decodable /\ AllZero(file.wave) /\ DurationError(file.n) = "none")
        => /\ pc \notin {"trimmed", "denoised", "normalized", "filtered",
                         "clipped", "scored", "accepted"}
           /\ run \notin DOMAIN tmp

\* C5: when noise reduction fails internally, the denoise stage leaves the
\* buffer exactly as trimming left it and the run goes on: it never fails,
\* and when it is accepted it returns a score in [0, 1].
C5_DenoiseDegrades ==
    file.denoise_raises =>
        /\ pc # "failed"
        /\ pc = "denoised" => audio = TrimSilence(file.wave)
        /\ pc = "accepted" =>
               /\ ~result.raised
               /\ result.value.quality_score \in 0..ScoreOne

\* C5 witness: an accepted run whose noise reduction failed and whose buffer
\* noise reduction would have changed.
C5_Witness ==
    /\ pc = "accepted"
    /\ file.denoise_raises
    /\ ~file.score_raises
    /\ result.value.quality_score > 0
    /\ NoiseReductionBody(TrimSilence(file.wave), FALSE).value # TrimSilence(file.wave)

\* C6: a scorer never raises to its caller; when its computation fails the
\* full scorer returns 0.6 and the legacy scorer returns 0.5.
C6_ScorerNeverRaises ==
    sc.called =>
        /\ ~sc.returned.raised
        /\ (sc.raises /\ sc.fn = "enhanced") => sc.returned.value.score = (6 * ScoreOne) \div 10
        /\ (sc.raises /\ sc.fn = "legacy") => sc.returned.value = (5 * ScoreOne) \div 10

\* C6 witness: the legacy scorer's computation failed and it returned 0.5.
C6_Witness ==
    /\ sc.called
    /\ sc.fn = "legacy"
    /\ sc.raises
    /\ sc.returned.value = (5 * ScoreOne) \div 10

\* C7: for every buffer the full scorer scores, each of the five sub-scores
\* is within [0, 1], and the composite is within [0, 1] and a multiple of
\* 0.01.
C7_ScoreRange ==
    (sc.called /\ sc.fn = "enhanced" /\ ~sc.raises) =>
        LET r == sc.returned.value.report
            q == sc.returned.value.score
        IN /\ \A x \in {r.snr, r.dynamic, r.rolloff, r.zcr, r.hnr} : 0 <= x /\ x <= SubOne
           /\ 0 <= q /\ q <= ScoreOne
           /\ q % (ScoreOne \div 100) = 0

\* C7 witness: a scored buffer whose raw clarity and raw articulation both
\* exceeded 1 and were limited to it.
C7_Witness ==
    /\ sc.called /\ sc.fn = "enhanced" /\ ~sc.raises
    /\ sc.returned.value.report.snr = SubOne
    /\ sc.returned.value.report.zcr = SubOne
    /\ ZcrMean(sc.audio) * 15 > SubOne
    /\ sc.returned.value.score > 0

\* C8: the composite score is 0.25 clarity + 0.15 dynamic + 0.20 rolloff +
\* 0.15 articulation + 0.25 harmonicity, capped at 1.0 and rounded to the
\* nearest multiple of 0.01; the weights sum to 1.
C8_CompositeFormula ==
    (sc.called /\ sc.fn = "enhanced" /\ ~sc.raises) =>
        LET r == sc.returned.value.report
            q == sc.returned.value.score
            weighted == 25 * r.snr + 15 * r.dynamic + 20 * r.rolloff + 15 * r.zcr + 25 * r.hnr
            capped == IF weighted > ScoreOne THEN ScoreOne ELSE weighted
        IN /\ 25 + 15 + 20 + 15 + 25 = 100
           /\ r = SubScores(sc.audio)
           /\ q % (ScoreOne \div 100) = 0
           /\ 2 * Abs(q - capped) <= ScoreOne \div 100

\* C8 witness: a scored buffer whose rolloff and articulation differ and
\* whose weighted sum rounding changed.
C8_Witness ==
    /\ sc.called /\ sc.fn = "enhanced" /\ ~sc.raises
    /\ sc.returned.value.report.rolloff # sc.returned.value.report.zcr
    /\ sc.returned.value.report.dynamic # sc.returned.value.report.hnr
    /\ WeightedScore(sc.returned.value.report) # sc.returned.value.score

C10_PitchClamp ==
    (pt.called /\ pt.returned.value.shifted) =>
        LET v == pt.returned.value
        IN /\ 500 <= v.ratio /\ v.ratio <= 2000
           /\ -12 <= v.n_steps /\ v.n_steps <= 12
           /\ v.raw_ratio > 2000 => v.n_steps = 12
           /\ v.raw_ratio < 500 => v.n_steps = -12
           /\ v.raw_ratio \in 500..2000 => v.ratio = v.raw_ratio

\* C10 witness: a reference four times as high as the generated voice was
\* shifted by +12 semitones.
C10_Witness ==
    /\ pt.called
    /\ pt.returned.value.shifted
    /\ pt.returned.value.raw_ratio = 4000
    /\ pt.returned.value.n_steps = 12

NoPositive(track) == \A i \in 1..Len(track) : track[i] <= 0

\* C11: the pitch transfer never raises; when a mean pitch is invalid (no
\* positive estimate), when the generated mean is not above zero, or when a
\* step of it fails, it returns the generated audio as it received it.
C11_PitchNeverRaises ==
    pt.called =>
        /\ ~pt.returned.raised
        /\ (pt.raises \/ NoPositive(pt.voice_pitch) \/ NoPositive(pt.basic_pitch)) =>
               /\ pt.returned.value.audio = "basic_audio"
               /\ ~pt.returned.value.shifted
        /\ pt.returned.value.audio \in {"basic_audio", "modified_audio"}
        /\ pt.returned.value.audio = "modified_audio" <=> pt.returned.value.shifted

\* C11 witness: a step of the pitch transfer failed on two tracks it would
\* have shifted, and the generated audio came back unmodified.
C11_Witness ==
    /\ pt.called
    /\ pt.raises
    /\ ~NoPositive(pt.voice_pitch) /\ ~NoPositive(pt.basic_pitch)
    /\ VoiceCharacteristicsBody(pt.voice_pitch, pt.basic_pitch, FALSE).value.shifted
    /\ ~pt.returned.raised
    /\ pt.returned.value.audio = "basic_audio"

\* C12: a voice directory holds a sample only for a voice_id whose intake run
\* was accepted, and after an upload that failed at any point neither
\* sample.wav nor profile metadata exists for its voice_id.
C12_FailedUploadLeavesNothing ==
    /\ \A v \in DOMAIN voices : voices[v].sample => v \in DOMAIN tmp
    /\ (rq.kind = "upload" /\ rq.pc = "done" /\ rq.response.status # 200) =>
           /\ ~HasSample(rq.voice_id)
           /\ ~HasProfile(rq.voice_id)

ToSeconds(q) == IF q.unit = "minutes" THEN 60 * q.value ELSE q.value

\* C14: when a decoded upload is rejected for its duration, the response
\* delivered to the caller is an error whose message states the violated
\* bound (3 s or 300 s) and, as another quantity, the sample's duration.
C14_DurationMessageStatesBoth ==
    (/\ rq.kind = "upload" /\ rq.pc = "done" /\ rq.file.decodable
     /\ (rq.file.n < 3 * SampleRate \/ rq.file.n > 300 * SampleRate)) =>
        LET stated == rq.response.detail.quantities
            bound == IF rq.file.n < 3 * SampleRate THEN 3 ELSE 300
        IN /\ rq.response.status # 200
           /\ \E b \in stated :
                 /\ ToSeconds(b) = bound
                 /\ \E a \in stated \ {b} :
                        Abs(ToSeconds(a) * SampleRate - rq.file.n) <= SampleRate

\* C15: cleaning a text that clean_text returned with the default options
\* returns it unchanged: clean_text(clean_text(t)) = clean_text(t).
C15_CleanTextIdempotent ==
    (tx.calls = 2 /\ tx.options = DefaultOptions) => tx.cleaned = tx.before

\* C16: with every combination of options, the text clean_text returns is
\* at most as long as the text it was given.
C16_CleanTextNeverLonger ==
    tx.calls >= 1 => Len(tx.cleaned) <= Len(tx.before)

\* C17: loudness normalization returns the buffer as it is when its RMS is
\* zero; otherwise every sample is the input sample times 0.2 / RMS, and the
\* RMS of the result is the target 0.2 (to the resolution of the arithmetic:
\* the RMS is known to one unit in `rms`).
C17_NormalizeToTarget ==
    (sc.called /\ sc.fn = "normalize") =>
        LET s == sc.audio
            out == sc.returned.value
            rms == CurrentRms(s)
            target == (2 * Unit) \div 10
        IN /\ ~sc.returned.raised
           /\ Len(out) = Len(s)
           /\ rms = 0 => out = s
           /\ rms > 0 =>
                 /\ \A i \in 1..Len(s) : Abs(out[i] * rms - s[i] * target) < rms
                 /\ CurrentRms(out) >= target - 3
                 /\ (CurrentRms(out) - target) * rms <= 2 * target

\* C17 witness: a tone of RMS 0.452 was scaled down, and the RMS of the
\* result is 0.2 to one unit.
C17_Witness ==
    /\ sc.called /\ sc.fn = "normalize"
    /\ sc.audio = Tone
    /\ sc.returned.value # sc.audio
    /\ \A i \in 1..Len(Tone) : Abs(sc.returned.value[i]) < Abs(Tone[i])
    /\ Abs(CurrentRms(sc.returned.value) - (2 * Unit) \div 10) <= 1

\* C18: noise reduction multiplies by 0.3 the magnitudes of exactly the
\* frames whose mean magnitude is strictly below 1.5 times the 20th
\* percentile of the frames' mean magnitudes; it leaves every other
\* magnitude and every phase as the transform gave them, and returns the
\* inverse transform of the two.
C18_NoiseGate ==
    (sc.called /\ sc.fn = "denoise" /\ ~sc.raises /\ sc.audio # <<>>) =>
        LET st == Stft(sc.audio)
            before == Magnitude(st)
            energy == [k \in 1..Len(before) |-> (before[k][1] + before[k][2]) \div 2]
            p20 == Percentile(energy, 20)
        IN /\ Len(sc.magnitude) = Len(before)
           /\ \A k \in 1..Len(before) :
                 sc.magnitude[k] =
                     IF 2 * energy[k] < 3 * p20
                     THEN <<(3 * before[k][1]) \div 10, (3 * before[k][2]) \div 10>>
                     ELSE before[k]
           /\ sc.phase = Phase(st)
           /\ sc.returned = Ret(Istft(Recombine(sc.magnitude, sc.phase), Len(sc.audio)))

\* C18 witness: of two frames the first lies below 1.5 times the percentile
\* and is attenuated, the second lies exactly at it and is not.
C18_Witness ==
    /\ sc.called /\ sc.fn = "denoise" /\ ~sc.raises
    /\ sc.audio = <<70, 70, 120, 120>>
    /\ Percentile(FrameEnergy(Magnitude(Stft(sc.audio))), 20) = 80
    /\ sc.magnitude = <<<<42, 0>>, <<240, 0>>>>
    /\ sc.returned.value = <<21, 21, 120, 120>>

\* C19: the quality_score stored by a successful upload is the intake score
\* when the engine is unavailable, and 0.8 / 0.5 / 0.3 when it is available
\* and the test generation produced a file / produced none / raised; every
\* stored score is within [0, 1]; create_voice_profile returns a profile
\* whenever the intake run was accepted, also when the engine test raised.
C19_StoredQualityScore ==
    /\ (rq.kind = "upload" /\ rq.pc = "done" /\ rq.response.status = 200) =>
           LET available == ~rq.svc.fallback_mode /\ rq.svc.xtts_model # "None"
           IN /\ HasProfile(rq.voice_id)
              /\ voices[rq.voice_id].profile[1].quality_score =
                     IF ~available THEN ProcessAudioSample(rq.file).value.quality_score
                     ELSE IF rq.test = "file" THEN (8 * ScoreOne) \div 10
                     ELSE IF rq.test = "no_file" THEN (5 * ScoreOne) \div 10
                     ELSE (3 * ScoreOne) \div 10
    /\ \A v \in DOMAIN voices :
           voices[v].profile # <<>> =>
               voices[v].profile[1].quality_score \in 0..ScoreOne
    /\ (rq.kind = "upload" /\ rq.pc = "save") =>
           /\ ~rq.result.raised
           /\ ~ProcessAudioSample(rq.file).raised

\* C19 witness: an upload was stored with 0.3 after its engine test raised,
\* next to a profile that holds the intake score of its sample.
C19_Witness ==
    /\ rq.kind = "upload" /\ rq.pc = "done" /\ rq.response.status = 200
    /\ rq.voice_id = 2
    /\ rq.test = "raises"
    /\ voices[2].profile[1].quality_score = (3 * ScoreOne) \div 10
    /\ HasProfile(1)
    /\ voices[1].profile[1].quality_score \notin
           {(8 * ScoreOne) \div 10, (5 * ScoreOne) \div 10, (3 * ScoreOne) \div 10}

\* C20: a synthesis takes the fallback path exactly when its instance has
\* fallback_mode set or no model loaded, and the primary path otherwise;
\* is_xtts_available() answers true exactly when neither is the case; an
\* instance whose fallback_mode is set keeps it set for as long as it serves.
C20_FallbackExactlyWhenUnavailable ==
    /\ [](LET unavailable == rq.svc.fallback_mode \/ rq.svc.xtts_model = "None"
          IN /\ rq.path # "none" =>
                    rq.path = (IF unavailable THEN "fallback" ELSE "xtts")
             /\ rq.asked # <<>> => (rq.asked[1] <=> ~unavailable))
    /\ [][(rq.pc \in {"write_temp", "create", "save", "finally", "verify",
                      "synthesize", "service_delete", "storage_delete"}
             /\ rq.svc.fallback_mode)
           => rq'.svc.fallback_mode]_vars

\* C20 witness: the library was imported and the model object was created,
\* but the instance fell back while initializing; it answered that the
\* engine is not available and synthesized on the fallback path.
C20_Witness ==
    /\ rq.kind = "clone" /\ rq.pc = "done"
    /\ XTTS_AVAILABLE
    /\ rq.svc.xtts_model = "TTS" /\ rq.svc.fallback_mode
    /\ rq.asked = <<FALSE>>
    /\ rq.path = "fallback"
    /\ rq.response.status = 200


\* C23: a client error that a handler of the voice-cloning endpoints raises
\* reaches the client with the status the handler raised, 400 for a bad
\* extension or an upload over 50 MB, 404 for an unknown voice_id; it is
\* never answered with a 500.
C23_ClientErrorKeepsStatus ==
    (rq.pc = "done" /\ rq.client_error # 0) => rq.response.status = rq.client_error

\* C26: when an upload request that wrote its temporary file is done, the
\* temporary file is gone, whether create_voice_profile returned or raised
\* or save_voice_profile raised.
C26_TempFileRemoved ==
    (rq.kind = "upload" /\ rq.pc = "done" /\ rq.voice_id # 0) =>
        rq.voice_id \notin uploads

\* C26 witness: save_voice_profile raised after the sample had been stored,
\* the request is done and its temporary file is gone.
C26_Witness ==
    /\ rq.kind = "upload" /\ rq.pc = "done" /\ rq.voice_id # 0
    /\ rq.result.raised /\ HasSample(rq.voice_id) /\ ~HasProfile(rq.voice_id)
    /\ rq.response.status = 500
    /\ rq.voice_id \notin uploads

\* C27: when a request is done, no temporary file of it is left outside the
\* storage directories: processed_<voice_id>.wav of an upload is gone, and
\* temp_<uuid>.mp3 of a fallback synthesis is gone.
C27_NoTempFilesLeft ==
    rq.pc = "done" =>
        /\ rq.kind = "upload" => rq.voice_id \notin DOMAIN tmp
        /\ rq.kind = "clone" => rq.temp_mp3 # "written"

RemovesVoiceFile ==
    \E v \in DOMAIN voices :
        \/ v \notin DOMAIN voices'
        \/ v \in DOMAIN voices' /\ voices[v].sample /\ ~voices'[v].sample
        \/ v \in DOMAIN voices' /\ voices[v].profile # <<>> /\ voices'[v].profile = <<>>

\* C22: a voice profile and its sample are removed only by the two delete
\* calls of a DELETE /profiles/{voice_id} request; cleanup_old_files, with
\* any max_age_hours, leaves every voice directory and the temp directory
\* as they are.
C22_OnlyDeletionRemovesVoices ==
    [][/\ CleanupOldFiles => (voices' = voices /\ tmp' = tmp /\ uploads' = uploads)
       /\ RemovesVoiceFile =>
              (rq.kind = "delete" /\ rq.pc \in {"service_delete", "storage_delete"})]_vars

\* C22 witness: a cleanup has removed the wav of a synthesis from
\* storage/audio and left its json, and a voice has its profile and sample.
C22_Witness ==
    /\ audio_dir = <<AudioFiles[2]>>
    /\ \E v \in 1..MaxVoices : HasProfile(v) /\ HasSample(v)

\* the call passed the language test and the length test
ArgumentsAccepted ==
    /\ ts.called
    /\ ~(ts.returned.raised /\ ts.returned.error.source = "argument")

\* C24: synthesize_text with a cloned voice_id never raises the failure of
\* the cloned synthesis; when the cloned synthesis raises, the call ends as
\* the regular engine ends: with its result or with its error.
C24_CloningFailureNotPropagated ==
    (ts.called /\ IsClonedVoice(ts.voice_id)) =>
        /\ ts.returned.raised => ts.returned.error.source # "cloning"
        /\ (ArgumentsAccepted /\ ts.cloned = "raises") =>
              IF ts.gtts = "raises"
              THEN ts.returned.raised /\ ts.returned.error.source = "tts"
              ELSE ~ts.returned.raised /\ ts.returned.value.engine = "gtts"

\* C24 witness: the cloned synthesis raised and the call returned the result
\* of the regular engine for the cloned voice_id.
C24_Witness ==
    /\ ts.called /\ IsClonedVoice(ts.voice_id)
    /\ ts.cloned = "raises" /\ ts.gtts = "returns"
    /\ ~ts.returned.raised
    /\ ts.returned.value.engine = "gtts"
    /\ ts.returned.value.voice_id = ts.voice_id

\* C25: synthesize_text with language 'auto' and a text within the length
\* limit, whose engine does not fail, returns a synthesis in the language
\* detect_language finds in the processed text, in 'vi' when that is
\* 'unknown'.
C25_AutoDetectsLanguage ==
    (/\ ts.called /\ ts.language = "auto"
     /\ Len(ProcessedText(ts.text, ts.clean_text)) <= max_text_length
     /\ ts.cloned = "returns" /\ ts.gtts = "returns") =>
        LET detected == DetectLanguage(ProcessedText(ts.text, ts.clean_text))
        IN /\ ~ts.returned.raised
           /\ ts.returned.value.language =
                  IF detected = "unknown" THEN "vi" ELSE detected

\* what the files of voice_id hold when they derive from the upload `content`
DerivedFrom(voice_id, filename, content) ==
    LET audio_info == ProcessAudioSample(content)
        holds(path, contents) == path \in DOMAIN files => files[path] = contents
    IN /\ holds(UploadPath(voice_id, filename), content)
       /\ \A path \in {ProcessedPath(voice_id), SamplePath(voice_id), ProfilePath(voice_id)} :
              path \in DOMAIN files => ~audio_info.raised
       /\ ~audio_info.raised =>
              /\ holds(ProcessedPath(voice_id), audio_info.value.processed)
              /\ holds(SamplePath(voice_id), audio_info.value.processed)
              /\ holds(ProfilePath(voice_id),
                       ProfileData(NewService(FALSE, "loaded"), voice_id,
                                   audio_info.value, "none"))

\* the paths whose file a step creates, changes or removes
Touched ==
    {path \in DOMAIN files \cup DOMAIN files' :
        \/ path \notin DOMAIN files \/ path \notin DOMAIN files'
        \/ files[path] # files'[path]}

====
